---- MODULE Spec2Model ----
(***************************************************************************)
(* easy-rsa-pytk: the PKI state and command-orchestration layer.           *)
(*                                                                         *)
(*   Spec       EasyRSAWrapper (src/easyrsa/wrapper.py): construction, the *)
(*              ten operation builders and _run_command, against the       *)
(*              process environment and the subprocess boundary.           *)
(*   SpecCert   Certificate.is_valid (src/easyrsa/models.py) against a     *)
(*              clock.                                                     *)
(*   SpecStore  PKIManager / PKIInfo (src/easyrsa/pki.py, models.py)       *)
(*              against a PKI directory that is mutated out-of-band.       *)
(*                                                                         *)
(* Text values (str) are sequences of chunks: '' is << >>, a literal is a  *)
(* one-chunk sequence and an f-string is the concatenation of its parts.   *)
(***************************************************************************)
EXTENDS Integers, Sequences, FiniteSets, TLC

VARIABLES
    environ,      \* os.environ of the hosting process
    wrappers,     \* the EasyRSAWrapper instances constructed so far
    lastCall,     \* the last operation-builder call: [op, w, ...]
    spawned,      \* the subprocess.run calls made by the last builder call
    result,       \* what the last builder call gave back to its caller
    cert,         \* a Certificate value
    now,          \* datetime.now()
    validAt,      \* the clock when is_valid() was last evaluated (None: never)
    validRet,     \* what is_valid() returned then
    fs,           \* the PKI directory on disk
    held,         \* a PKIInfo value a caller keeps (None: none yet)
    query,        \* the last PKIManager / PKIInfo query: [op, arg]
    ret,          \* what that query returned
    navigator,    \* the JogDialNavigator: items, current_index, screen_stack
    current_screen \* EasyRSAApp.current_screen

runnerVars == <<environ, wrappers, lastCall, spawned, result>>
certVars   == <<cert, now, validAt, validRet>>
storeVars  == <<fs, held, query, ret>>
uiVars     == <<navigator, current_screen>>
vars       == <<environ, wrappers, lastCall, spawned, result,
                cert, now, validAt, validRet, fs, held, query, ret,
                navigator, current_screen>>

None == "None"

Str(s) == <<s>>
Empty  == << >>

Range(s) == {s[i] : i \in DOMAIN s}

(***************************************************************************)
(* Bounds.                                                                 *)
(***************************************************************************)
MaxWrappers == 2
MaxTime     == 4
MaxIndex    == 3
MaxFile     == 3
MaxLines    == 4
MaxVars     == 3
MaxItems    == 3
MaxStack    == 5

(***************************************************************************)
(* The subprocess boundary.                                                *)
(***************************************************************************)
TIMEOUT == 60

\* settings.easyrsa_bin / settings.pki_dir
settings_easyrsa_bin == "/usr/share/easy-rsa/easyrsa"
settings_pki_dir     == "/home/pi/easy-rsa-pki"

\* What the configured binary path resolves to on this host.
Bins == {settings_easyrsa_bin, "/opt/missing/easyrsa", "/etc/easyrsa.conf"}
BinKind(bin) ==
    CASE bin = settings_easyrsa_bin     -> "executable"
      [] bin = "/opt/missing/easyrsa"   -> "absent"
      [] OTHER                          -> "noexec"

PkiDirs == {settings_pki_dir, "/srv/pki-b"}

EnvNames == {"PATH", "EASYRSA_PKI", "EASYRSA_BATCH", "EASYRSA_REQ_CN"}

ExitCodes == {0, 1, -1}
Outs == {Empty, Str("out")}
Errs == {Empty, Str("Easy-RSA error: failed")}

\* What the operating system and the external tool do with one spawn: the
\* tool exits after secs seconds, never exits, or the fork itself fails.
Behaviour(kind, code, out, err, secs) ==
    [kind |-> kind, code |-> code, out |-> out, err |-> err, secs |-> secs]
Behaviours ==
    {Behaviour("exit", c, o, e, 1) : c \in ExitCodes, o \in Outs, e \in Errs}
    \cup {Behaviour("exit", c, Empty, Empty, TIMEOUT + 1) : c \in {0, 1}}
    \cup {Behaviour("hang", 0, Empty, Empty, 0),
          Behaviour("forkfail", 0, Empty, Empty, 0)}

\* The classes an exception is an instance of.
ExcBases(exc) ==
    CASE exc = "TimeoutExpired"    -> {"TimeoutExpired", "SubprocessError", "Exception"}
      [] exc = "FileNotFoundError" -> {"FileNotFoundError", "OSError", "Exception"}
      [] exc = "PermissionError"   -> {"PermissionError", "OSError", "Exception"}
      [] exc = "OSError"           -> {"OSError", "Exception"}
      [] OTHER                     -> {exc}

Completed(beh) ==
    [tag |-> "completed", exc |-> None, text |-> Empty,
     returncode |-> beh.code, stdout |-> beh.out, stderr |-> beh.err]
Raises(exc, text) ==
    [tag |-> "raise", exc |-> exc, text |-> text,
     returncode |-> 0, stdout |-> Empty, stderr |-> Empty]

\* subprocess.run(cmd, capture_output=True, text=True, env=env, timeout=timeout)
subprocess_run(cmd, env, timeout, beh) ==
    CASE BinKind(cmd[1]) = "absent" ->
            Raises("FileNotFoundError",
                   <<"[Errno 2] No such file or directory: ", cmd[1]>>)
      [] BinKind(cmd[1]) = "noexec" ->
            Raises("PermissionError",
                   <<"[Errno 13] Permission denied: ", cmd[1]>>)
      [] beh.kind = "forkfail" ->
            Raises("OSError", Str("[Errno 12] Cannot allocate memory"))
      [] beh.kind = "hang" \/ beh.secs > timeout ->
            Raises("TimeoutExpired",
                   <<"Command ", cmd[1], " timed out after 60 seconds">>)
      [] OTHER -> Completed(beh)

\* Whether the call created a child process at all.
ProcessCreated(cmd, beh) ==
    BinKind(cmd[1]) = "executable" /\ beh.kind # "forkfail"

(***************************************************************************)
(* CommandResult (models.py) and EasyRSAWrapper (wrapper.py).              *)
(***************************************************************************)
CommandResult(success, stdout, stderr, exit_code, message) ==
    [success |-> success, stdout |-> stdout, stderr |-> stderr,
     exit_code |-> exit_code, message |-> message]

\* An exception that leaves the call instead of a value.
Raised(exc) == [raised |-> exc]
IsCommandResult(r) == DOMAIN r = {"success", "stdout", "stderr", "exit_code", "message"}

\* env.update(env_vars)
update(env, env_vars) ==
    [n \in DOMAIN env |-> IF n \in DOMAIN env_vars THEN env_vars[n] ELSE env[n]]

\* env_vars=None; an empty dict takes the same branch of `if env_vars:`.
NoEnvVars == [n \in {} |-> None]

Spawn(cmd, env, beh) ==
    [cmd |-> cmd, env |-> env, beh |-> beh, proc |-> ProcessCreated(cmd, beh)]

\* Outcome with success read off stderr instead of the return code.
Outcome_SuccessFromStderr(self, run) ==
    IF run.tag = "completed" THEN
        CommandResult(run.stderr = Empty, run.stdout, run.stderr,
                      run.returncode, Empty)
    ELSE CommandResult(FALSE, Empty, run.text, -1,
                       <<"Error running command: ">> \o run.text)

\* Outcome without the TimeoutExpired handler: a timeout reaches the generic one.
Outcome_NoTimeoutHandler(self, run) ==
    IF run.tag = "completed" THEN
        CommandResult(run.returncode = 0, run.stdout, run.stderr,
                      run.returncode, Empty)
    ELSE IF "FileNotFoundError" \in ExcBases(run.exc) THEN
        CommandResult(FALSE, Empty,
                      <<"easy-rsa binary not found: ", self.easyrsa_bin>>, -1,
                      <<"Could not find easy-rsa at ", self.easyrsa_bin>>)
    ELSE CommandResult(FALSE, Empty, run.text, -1,
                       <<"Error running command: ">> \o run.text)

\* Outcome whose not-found message leaves the path out.
Outcome_NotFoundUnnamed(self, run) ==
    IF run.tag = "completed" THEN
        CommandResult(run.returncode = 0, run.stdout, run.stderr,
                      run.returncode, Empty)
    ELSE IF "TimeoutExpired" \in ExcBases(run.exc) THEN
        CommandResult(FALSE, Empty, Str("Command timed out"), -1,
                      Str("Command execution timed out after 60 seconds"))
    ELSE IF "FileNotFoundError" \in ExcBases(run.exc) THEN
        CommandResult(FALSE, Empty, Str("easy-rsa binary not found"), -1,
                      Str("Could not find easy-rsa"))
    ELSE CommandResult(FALSE, Empty, run.text, -1,
                       <<"Error running command: ">> \o run.text)

\* Outcome that handles OSError only where it is a missing file.
Outcome_NoGenericHandler(self, run) ==
    IF run.tag = "completed" THEN
        CommandResult(run.returncode = 0, run.stdout, run.stderr,
                      run.returncode, Empty)
    ELSE IF "TimeoutExpired" \in ExcBases(run.exc) THEN
        CommandResult(FALSE, Empty, Str("Command timed out"), -1,
                      Str("Command execution timed out after 60 seconds"))
    ELSE IF "FileNotFoundError" \in ExcBases(run.exc) THEN
        CommandResult(FALSE, Empty,
                      <<"easy-rsa binary not found: ", self.easyrsa_bin>>, -1,
                      <<"Could not find easy-rsa at ", self.easyrsa_bin>>)
    ELSE Raised(run.exc)

\* The try block of _run_command with its three handlers.
Outcome(self, run) ==
    IF run.tag = "completed" THEN
        CommandResult(run.returncode = 0, run.stdout, run.stderr,
                      run.returncode, Empty)
    ELSE IF "TimeoutExpired" \in ExcBases(run.exc) THEN
        CommandResult(FALSE, Empty, Str("Command timed out"), -1,
                      Str("Command execution timed out after 60 seconds"))
    ELSE IF "FileNotFoundError" \in ExcBases(run.exc) THEN
        CommandResult(FALSE, Empty,
                      <<"easy-rsa binary not found: ", self.easyrsa_bin>>, -1,
                      <<"Could not find easy-rsa at ", self.easyrsa_bin>>)
    ELSE IF "Exception" \in ExcBases(run.exc) THEN
        CommandResult(FALSE, Empty, run.text, -1,
                      <<"Error running command: ">> \o run.text)
    ELSE Raised(run.exc)

\* ChildEnv that relies on what the constructor left in os.environ.
ChildEnv_FromEnviron(self, env_vars) ==
    IF DOMAIN env_vars # {} THEN update(environ, env_vars) ELSE environ

\* The environment handed to the child.
ChildEnv(self, env_vars) ==
    LET env == [environ EXCEPT !["EASYRSA_PKI"] = self.pki_dir]
    IN  IF DOMAIN env_vars # {} THEN update(env, env_vars) ELSE env

\* _run_command that runs the tool a second time when the first run failed.
_run_command_Retry(self, args, env_vars, beh) ==
    LET cmd == <<self.easyrsa_bin>> \o args
        env == ChildEnv(self, env_vars)
        run == subprocess_run(cmd, env, TIMEOUT, beh)
        res == Outcome(self, run)
    IN  [ret     |-> res,
         spawns  |-> IF res.success THEN <<Spawn(cmd, env, beh)>>
                     ELSE <<Spawn(cmd, env, beh), Spawn(cmd, env, beh)>>,
         environ |-> environ]

\* _run_command(self, args, env_vars): what it returns, the subprocess.run
\* calls it makes, and os.environ when it is done.
_run_command(self, args, env_vars, beh) ==
    LET cmd == <<self.easyrsa_bin>> \o args
        env == ChildEnv(self, env_vars)
        run == subprocess_run(cmd, env, TIMEOUT, beh)
    IN  [ret     |-> Outcome(self, run),
         spawns  |-> <<Spawn(cmd, env, beh)>>,
         environ |-> environ]

nopass_arg(nopass) == IF nopass THEN <<"nopass">> ELSE << >>

init_pki(self, beh) == _run_command(self, <<"init-pki">>, NoEnvVars, beh)

\* build_ca that exports the common name into os.environ.
build_ca_Export(self, common_name, nopass, beh) ==
    LET args == <<"build-ca">> \o nopass_arg(nopass)
        env_vars == IF common_name # None /\ common_name # ""
                    THEN [n \in {"EASYRSA_REQ_CN"} |-> common_name]
                    ELSE NoEnvVars
        done == _run_command(self, args, env_vars, beh)
    IN  [done EXCEPT !.environ = update(environ, env_vars)]

build_ca(self, common_name, nopass, beh) ==
    LET args     == <<"build-ca">> \o nopass_arg(nopass)
        env_vars == IF common_name # None /\ common_name # ""
                    THEN [n \in {"EASYRSA_REQ_CN"} |-> common_name]
                    ELSE NoEnvVars
    IN  _run_command(self, args,
                     IF DOMAIN env_vars # {} THEN env_vars ELSE NoEnvVars, beh)

build_server_full(self, name, nopass, beh) ==
    _run_command(self, <<"build-server-full", name>> \o nopass_arg(nopass), NoEnvVars, beh)

build_client_full(self, name, nopass, beh) ==
    _run_command(self, <<"build-client-full", name>> \o nopass_arg(nopass), NoEnvVars, beh)

gen_req(self, name, nopass, beh) ==
    _run_command(self, <<"gen-req", name>> \o nopass_arg(nopass), NoEnvVars, beh)

import_req(self, req_file, short_name, beh) ==
    _run_command(self, <<"import-req", req_file, short_name>>, NoEnvVars, beh)

sign_req(self, cert_type, name, beh) ==
    _run_command(self, <<"sign-req", cert_type, name>>, NoEnvVars, beh)

revoke(self, name, reason, beh) == _run_command(self, <<"revoke", name>>, NoEnvVars, beh)

gen_crl(self, beh) == _run_command(self, <<"gen-crl">>, NoEnvVars, beh)

show_cert(self, name, beh) == _run_command(self, <<"show-cert", name>>, NoEnvVars, beh)

\* EasyRSAWrapper.__init__(easyrsa_bin, pki_dir): the instance, and os.environ
\* after construction.
EasyRSAWrapper_init(easyrsa_bin, pki_dir) ==
    LET self == [easyrsa_bin |-> IF easyrsa_bin # None /\ easyrsa_bin # ""
                                 THEN easyrsa_bin ELSE settings_easyrsa_bin,
                 pki_dir     |-> IF pki_dir # None /\ pki_dir # ""
                                 THEN pki_dir ELSE settings_pki_dir]
    IN  [self    |-> self,
         environ |-> [environ EXCEPT !["EASYRSA_PKI"]   = self.pki_dir,
                                     !["EASYRSA_BATCH"] = "1"]]

(***************************************************************************)
(* The wrapper's operations as actions.                                    *)
(***************************************************************************)
Names     == {"server1", "client1"}
CaNames   == {None, "", "Easy-RSA CA"}
CertTypes == {"server", "client"}
ReqFiles  == {"/media/pi/usb/client1.req"}

NoCall == [op |-> None, w |-> 0, common_name |-> None]

\* The caller is single-threaded: it constructs a wrapper or calls a builder
\* only when the previous call has returned and its result has been used.
Construct ==
    /\ lastCall = NoCall
    /\ Len(wrappers) < MaxWrappers
    /\ \E easyrsa_bin \in Bins \cup {None}, pki_dir \in PkiDirs \cup {None} :
          LET made == EasyRSAWrapper_init(easyrsa_bin, pki_dir)
          IN  /\ wrappers' = Append(wrappers, made.self)
              /\ environ'  = made.environ
    /\ UNCHANGED <<lastCall, spawned, result>>
    /\ UNCHANGED <<certVars, storeVars, uiVars>>

\* A builder call by wrapper w returns: what the caller and the host see.
Returns(op, w, common_name, done) ==
    /\ lastCall = NoCall
    /\ lastCall' = [op |-> op, w |-> w, common_name |-> common_name]
    /\ spawned'  = done.spawns
    /\ result'   = done.ret
    /\ environ'  = done.environ
    /\ UNCHANGED wrappers
    /\ UNCHANGED <<certVars, storeVars, uiVars>>

InitPki ==
    \E w \in DOMAIN wrappers, beh \in Behaviours :
        Returns("init-pki", w, None, init_pki(wrappers[w], beh))

BuildCa ==
    \E w \in DOMAIN wrappers, cn \in CaNames, nopass \in BOOLEAN, beh \in Behaviours :
        Returns("build-ca", w, cn, build_ca(wrappers[w], cn, nopass, beh))

BuildServerFull ==
    \E w \in DOMAIN wrappers, name \in Names, nopass \in BOOLEAN, beh \in Behaviours :
        Returns("build-server-full", w, None,
                build_server_full(wrappers[w], name, nopass, beh))

BuildClientFull ==
    \E w \in DOMAIN wrappers, name \in Names, nopass \in BOOLEAN, beh \in Behaviours :
        Returns("build-client-full", w, None,
                build_client_full(wrappers[w], name, nopass, beh))

GenReq ==
    \E w \in DOMAIN wrappers, name \in Names, nopass \in BOOLEAN, beh \in Behaviours :
        Returns("gen-req", w, None, gen_req(wrappers[w], name, nopass, beh))

ImportReq ==
    \E w \in DOMAIN wrappers, req_file \in ReqFiles, name \in Names, beh \in Behaviours :
        Returns("import-req", w, None, import_req(wrappers[w], req_file, name, beh))

SignReq ==
    \E w \in DOMAIN wrappers, cert_type \in CertTypes, name \in Names, beh \in Behaviours :
        Returns("sign-req", w, None, sign_req(wrappers[w], cert_type, name, beh))

Revoke ==
    \E w \in DOMAIN wrappers, name \in Names, beh \in Behaviours :
        Returns("revoke", w, None, revoke(wrappers[w], name, "unspecified", beh))

GenCrl ==
    \E w \in DOMAIN wrappers, beh \in Behaviours :
        Returns("gen-crl", w, None, gen_crl(wrappers[w], beh))

ShowCert ==
    \E w \in DOMAIN wrappers, name \in Names, beh \in Behaviours :
        Returns("show-cert", w, None, show_cert(wrappers[w], name, beh))

\* The caller has looked at the CommandResult and lets go of it.
Discard ==
    /\ lastCall # NoCall
    /\ lastCall' = NoCall
    /\ spawned' = << >>
    /\ result' = None
    /\ UNCHANGED <<environ, wrappers>>
    /\ UNCHANGED <<certVars, storeVars, uiVars>>

\* The values the variables of the other components keep under a
\* specification that does not exercise them.
RunnerIdle ==
    /\ environ = [n \in EnvNames |-> None]
    /\ wrappers = << >>
    /\ lastCall = NoCall
    /\ spawned = << >>
    /\ result = None

CertIdle ==
    /\ cert = None
    /\ now = 0
    /\ validAt = -1
    /\ validRet = FALSE

UiIdle ==
    /\ navigator = None
    /\ current_screen = None

StoreIdle ==
    /\ fs = None
    /\ held = None
    /\ query = [op |-> None, arg |-> None]
    /\ ret = None

\* The host's environment before any wrapper exists: EASYRSA_REQ_CN is not
\* defined; the two ambient variables may or may not be.
Init ==
    /\ environ \in {[n \in EnvNames |->
                        CASE n = "PATH"          -> "/usr/bin"
                          [] n = "EASYRSA_PKI"   -> pki
                          [] n = "EASYRSA_BATCH" -> batch
                          [] OTHER               -> None] :
                    pki \in {None, "/host/pki"}, batch \in {None, "0"}}
    /\ wrappers = << >>
    /\ lastCall = NoCall
    /\ spawned = << >>
    /\ result = None
    /\ CertIdle
    /\ StoreIdle
    /\ UiIdle

Next ==
    \/ Construct
    \/ InitPki
    \/ BuildCa
    \/ BuildServerFull
    \/ BuildClientFull
    \/ GenReq
    \/ ImportReq
    \/ SignReq
    \/ Revoke
    \/ GenCrl
    \/ ShowCert
    \/ Discard

Spec == Init /\ [][Next]_vars

(***************************************************************************)
(* Claims about the command runner, under Spec.                            *)
(***************************************************************************)
Called   == lastCall # NoCall
Self     == wrappers[lastCall.w]
TheSpawn == spawned[1]

\* What happened at the subprocess boundary, read off the host and the tool.
ToolExited   == /\ BinKind(Self.easyrsa_bin) = "executable"
                /\ TheSpawn.beh.kind = "exit"
                /\ TheSpawn.beh.secs <= TIMEOUT
ToolTimedOut == /\ BinKind(Self.easyrsa_bin) = "executable"
                /\ \/ TheSpawn.beh.kind = "hang"
                   \/ TheSpawn.beh.kind = "exit" /\ TheSpawn.beh.secs > TIMEOUT
BinMissing   == BinKind(Self.easyrsa_bin) # "executable"
SpawnFailed  == \/ BinKind(Self.easyrsa_bin) = "noexec"
                \/ /\ BinKind(Self.easyrsa_bin) = "executable"
                   /\ TheSpawn.beh.kind = "forkfail"

\* C1: when the process exits before the timeout, the call returns a
\* CommandResult with success = (exit code is 0), exit_code the exit code and
\* stdout / stderr the captured output unchanged.
C1_CompletedResult ==
    (Called /\ ToolExited) =>
        /\ IsCommandResult(result)
        /\ result.success = (TheSpawn.beh.code = 0)
        /\ result.exit_code = TheSpawn.beh.code
        /\ result.stdout = TheSpawn.beh.out
        /\ result.stderr = TheSpawn.beh.err

C1_Witness ==
    /\ Called /\ ToolExited
    /\ TheSpawn.beh.code = 1
    /\ TheSpawn.beh.err # Empty
    /\ IsCommandResult(result) /\ ~result.success

\* C2: when the process has not exited after the timeout, the call returns a
\* CommandResult with success = false, exit_code = -1 and the fixed message.
C2_TimeoutResult ==
    (Called /\ ToolTimedOut) =>
        /\ IsCommandResult(result)
        /\ result.success = FALSE
        /\ result.exit_code = -1
        /\ result.message = Str("Command execution timed out after 60 seconds")

C2_Witness ==
    /\ Called /\ ToolTimedOut
    /\ TheSpawn.beh.kind = "hang"
    /\ IsCommandResult(result) /\ result.exit_code = -1

\* C3: when the configured binary path is not an executable, the call returns
\* a CommandResult with success = false, exit_code = -1, empty stdout and a
\* message that names the configured path, and no process is created.
C3_BinaryNotFound ==
    (Called /\ BinMissing) =>
        /\ IsCommandResult(result)
        /\ result.success = FALSE
        /\ result.exit_code = -1
        /\ result.stdout = Empty
        /\ Self.easyrsa_bin \in Range(result.message)
        /\ \A i \in DOMAIN spawned : ~spawned[i].proc

C3_Witness ==
    /\ Called
    /\ BinKind(Self.easyrsa_bin) = "absent"
    /\ IsCommandResult(result)
    /\ result.message = <<"Could not find easy-rsa at ", "/opt/missing/easyrsa">>

\* C4: no builder call raises; a spawn failure other than timeout and
\* file-not-found gives success = false, exit_code = -1 and the error text in
\* stderr and in the message; exit_code = -1 always comes with success = false.
C4_NeverRaises ==
    Called =>
        /\ IsCommandResult(result)
        /\ SpawnFailed =>
              /\ result.success = FALSE
              /\ result.exit_code = -1
              /\ result.stderr # Empty
              /\ Range(result.stderr) \subseteq Range(result.message)
        /\ (result.exit_code = -1) => (result.success = FALSE)

C4_Witness ==
    /\ Called
    /\ BinKind(Self.easyrsa_bin) = "executable"
    /\ TheSpawn.beh.kind = "forkfail"
    /\ IsCommandResult(result)
    /\ result.stderr = Str("[Errno 12] Cannot allocate memory")

\* C8: every process started by a builder of a wrapper gets EASYRSA_PKI equal
\* to that wrapper's own pki_dir and EASYRSA_BATCH equal to 1, whatever
\* wrappers were constructed before or after it.
C8_AmbientEnv ==
    Called =>
        \A i \in DOMAIN spawned :
            /\ spawned[i].env["EASYRSA_PKI"] = Self.pki_dir
            /\ spawned[i].env["EASYRSA_BATCH"] = "1"

C8_Witness ==
    /\ Called
    /\ Len(wrappers) = 2
    /\ lastCall.w = 1
    /\ wrappers[2].pki_dir # wrappers[1].pki_dir
    /\ environ["EASYRSA_PKI"] = wrappers[2].pki_dir
    /\ TheSpawn.env["EASYRSA_PKI"] = wrappers[1].pki_dir

\* C9: the child's environment holds EASYRSA_REQ_CN exactly for a build-ca
\* call with a non-empty common name, and then that name; os.environ never
\* holds it, so no later call carries it.
C9_ReqCnOnlyForBuildCa ==
    /\ environ["EASYRSA_REQ_CN"] = None
    /\ Called =>
          \A i \in DOMAIN spawned :
              LET cn == spawned[i].env["EASYRSA_REQ_CN"]
                  named == /\ lastCall.op = "build-ca"
                           /\ lastCall.common_name \notin {None, ""}
              IN  /\ (cn # None) <=> named
                  /\ named => cn = lastCall.common_name

C9_Witness ==
    /\ Called
    /\ lastCall.op = "build-ca"
    /\ lastCall.common_name = "Easy-RSA CA"
    /\ TheSpawn.env["EASYRSA_REQ_CN"] = "Easy-RSA CA"
    /\ environ["EASYRSA_REQ_CN"] = None

\* C10: one builder call runs the external tool at most once, whatever the
\* outcome of that run.
C10_NoRetry ==
    /\ Len(spawned) <= 1
    /\ Called => Len(spawned) = 1

C10_Witness ==
    /\ Called
    /\ IsCommandResult(result) /\ ~result.success
    /\ Len(spawned) = 1
    /\ TheSpawn.proc

\* C11: when the tool exits with a non-zero code, the returned CommandResult
\* carries the raw stdout and stderr unchanged and a simplified diagnostic
\* message, that is, a message field that is not empty.
C11_SimplifiedMessage ==
    (Called /\ ToolExited /\ TheSpawn.beh.code # 0) =>
        /\ IsCommandResult(result)
        /\ result.stdout = TheSpawn.beh.out
        /\ result.stderr = TheSpawn.beh.err
        /\ result.message # Empty

(***************************************************************************)
(* Certificate (models.py) against a clock.  Timestamps are integers: one  *)
(* unit is the resolution of datetime.                                     *)
(***************************************************************************)
VALID   == "V"
REVOKED == "R"
EXPIRED == "E"
CertificateStatus == {VALID, REVOKED, EXPIRED}

\* None where a datetime is expected.
NoDate == << >>

Certificate(status, expiration_date, revocation_date, serial_number, filename, common_name) ==
    [status |-> status, expiration_date |-> expiration_date,
     revocation_date |-> revocation_date, serial_number |-> serial_number,
     filename |-> filename, common_name |-> common_name, cert_type |-> None]

\* is_valid with the comparison turned into "expires at or before now".
is_valid_Strict(self, t) ==
    IF self.status # VALID THEN FALSE
    ELSE IF self.expiration_date <= t THEN FALSE
    ELSE TRUE

\* Certificate.is_valid() evaluated when datetime.now() is t.
is_valid(self, t) ==
    IF self.status # VALID THEN FALSE
    ELSE IF self.expiration_date < t THEN FALSE
    ELSE TRUE

\* datetime.now() moves on.
Tick ==
    /\ now < MaxTime
    /\ now' = now + 1
    /\ UNCHANGED <<cert, validAt, validRet>>
    /\ UNCHANGED <<runnerVars, storeVars, uiVars>>

IsValid ==
    /\ validAt' = now
    /\ validRet' = is_valid(cert, now)
    /\ UNCHANGED <<cert, now>>
    /\ UNCHANGED <<runnerVars, storeVars, uiVars>>

InitCert ==
    /\ cert \in {Certificate(st, exp, NoDate, "01", "unknown", "server1") :
                    st \in CertificateStatus, exp \in 0..MaxTime}
    /\ now = 0
    /\ validAt = -1
    /\ validRet = FALSE
    /\ RunnerIdle
    /\ StoreIdle
    /\ UiIdle

NextCert == Tick \/ IsValid

SpecCert == InitCert /\ [][NextCert]_vars

Evaluated == validAt >= 0

\* C5 as stated: is_valid() at time now is true exactly when status = Valid
\* and the expiration is strictly later than now.
C5_StrictlyLater ==
    Evaluated =>
        (validRet <=> (cert.status = VALID /\ cert.expiration_date > validAt))

\* C5 as the code has it: is_valid() at time now is true exactly when
\* status = Valid and the expiration is not earlier than now; it is true when
\* the expiration equals now, false when the expiration is in the past with
\* status still Valid, and false for every Revoked or Expired certificate.
C5_NotEarlier ==
    Evaluated =>
        /\ validRet <=> (cert.status = VALID /\ cert.expiration_date >= validAt)
        /\ (cert.status = VALID /\ cert.expiration_date = validAt) => validRet
        /\ (cert.status = VALID /\ cert.expiration_date < validAt) => ~validRet
        /\ cert.status \in {REVOKED, EXPIRED} => ~validRet

C5_Witness ==
    /\ Evaluated
    /\ validAt > 0
    /\ cert.status = VALID
    /\ cert.expiration_date = validAt
    /\ validRet

(***************************************************************************)
(* Python's str as the parser uses it.  A str is a string, and its i-th    *)
(* character is the one-character string At(s, i).  Positions count from   *)
(* 1, and 0 stands for find()'s "not found".                               *)
(***************************************************************************)
At(s, i) == SubSeq(s, i, i)

\* The characters str.strip() and the regex class \s remove.
Whitespace == {" ", "\t", "\n", "\r", "\f"}

\* s[i-1:]
From(s, i) == SubSeq(s, i, Len(s))

\* s.startswith(prefix)
startswith(s, prefix) ==
    Len(s) >= Len(prefix) /\ SubSeq(s, 1, Len(prefix)) = prefix

\* The positions from i on at which sub occurs in s.
Occurrences(s, sub, i) ==
    {j \in i..(Len(s) - Len(sub) + 1) : SubSeq(s, j, j + Len(sub) - 1) = sub}

\* The least member of a non-empty set of positions.
Least(positions) == CHOOSE j \in positions : \A k \in positions : j <= k

FirstOrZero(positions) == IF positions = {} THEN 0 ELSE Least(positions)

\* s.find(sub, i-1) + 1
find(s, sub, i) == FirstOrZero(Occurrences(s, sub, i))

\* sub in s
contains(s, sub) == find(s, sub, 1) # 0

\* The positions of the characters of s that are not whitespace.
Inked(s) == {j \in 1..Len(s) : At(s, j) \notin Whitespace}

Greatest(positions) == CHOOSE j \in positions : \A k \in positions : j >= k

LeftCut(s, inked) == IF inked = {} THEN "" ELSE From(s, Least(inked))

RightCut(s, inked) == IF inked = {} THEN "" ELSE SubSeq(s, 1, Greatest(inked))

\* s.lstrip()
lstrip(s) == LeftCut(s, Inked(s))

\* s.rstrip()
rstrip(s) == RightCut(s, Inked(s))

\* s.strip()
strip(s) == rstrip(lstrip(s))

\* s.split(sep) for a one-character sep: the sequence of the pieces.
RECURSIVE split(_, _)
split(s, sep) ==
    LET i == find(s, sep, 1)
    IN  IF i = 0 THEN <<s>>
        ELSE <<SubSeq(s, 1, i - 1)>> \o split(From(s, i + 1), sep)

\* sep.join(pieces)
RECURSIVE join(_, _)
join(sep, pieces) ==
    IF pieces = << >> THEN ""
    ELSE IF Len(pieces) = 1 THEN pieces[1]
    ELSE pieces[1] \o sep \o join(sep, Tail(pieces))

UpperCase == "ABCDEFGHIJKLMNOPQRSTUVWXYZ"
LowerCase == "abcdefghijklmnopqrstuvwxyz"

\* s.lower()
RECURSIVE lower(_)
lower(s) ==
    IF s = "" THEN ""
    ELSE LET i == find(UpperCase, At(s, 1), 1)
         IN  (IF i = 0 THEN At(s, 1) ELSE At(LowerCase, i)) \o lower(From(s, 2))

\* The value of a decimal digit, -1 for any other character.
Digit(c) == find("0123456789", c, 1) - 1

IsNumber(t) == t # "" /\ \A i \in 1..Len(t) : Digit(At(t, i)) >= 0

\* int(t) for a string of decimal digits, which a space may precede.
RECURSIVE int(_)
int(t) ==
    IF t = "" THEN 0
    ELSE IF At(t, 1) = " " THEN int(From(t, 2))
    ELSE 10 * int(SubSeq(t, 1, Len(t) - 1)) + Digit(At(t, Len(t)))

(***************************************************************************)
(* The PKI directory on disk, and the index parser (parser.py).            *)
(*                                                                         *)
(* A path is the sequence of its components, a file name being split into  *)
(* stem and suffix: Path(root) / 'issued' / f'{name}.crt' is               *)
(* <<root, "issued", name, ".crt">>.  No path (None) is << >>.             *)
(* fs holds what exists under the configured root: the root itself, ca.crt,*)
(* index.txt with its lines, the stems of the files in issued/, private/   *)
(* (ca.key is the stem "ca"), reqs/ and revoked/, and whether reqs/ and    *)
(* revoked/ are there.  revoked_dir is "blocked" when the directory can    *)
(* neither be created nor written (revoked is a regular file, or the root  *)
(* is read-only); immovable holds the files of issued/ that cannot be      *)
(* removed from it.                                                        *)
(* An index line is a str with its line terminator, as iterating over the  *)
(* open file yields it.                                                    *)
(***************************************************************************)
NoPath == << >>

FileNames == {"server1"}

IndexLines ==
    { "V\t300101000000Z\t\t01\tunknown\t/CN=server1\n",
      "R\t300101000000Z\t250601120000Z\t02\tunknown\t/CN=client1\n",
      "E\t240101000000Z\t\t03\tunknown\t/CN=server1\n",
      "X\t300101000000Z\t\t04\tunknown\t/CN=server1\n" }

\* Timestamps as the index file writes them, each with the datetime it
\* denotes; the revocation field of a record that is not revoked is empty.
Stamps ==
    { [text |-> "300101000000Z", at |-> <<2030, 1, 1, 0, 0, 0>>],
      [text |-> "240229235959Z", at |-> <<2024, 2, 29, 23, 59, 59>>] }

Revocations ==
    { [text |-> "", at |-> NoDate],
      [text |-> "991231120000Z", at |-> <<1999, 12, 31, 12, 0, 0>>] }

\* What follows the filename field on the line, with the common name the
\* subject carries: no sixth field, an empty one, and subjects in the
\* slash-separated and the comma-separated form.
Subjects ==
    { [rest |-> "", cn |-> ""],
      [rest |-> "\t", cn |-> ""],
      [rest |-> "\t/CN=server1", cn |-> "server1"],
      [rest |-> "\t/C=DE/O=Lab 7/CN=vpn client/OU=ops", cn |-> "vpn client"],
      [rest |-> "\tC=DE, CN = client1, O=Lab", cn |-> "client1"] }

Serials == {"01", "0A1F"}
Filenames == {"unknown", "server1.crt"}

\* The well-formed records, by their fields.
Records ==
    [status : {"V", "R", "E"}, expiry : Stamps, revocation : Revocations,
     serial : Serials, filename : Filenames, subject : Subjects]

\* The line of index.txt that holds record r.
Format(r) ==
    join("\t", <<r.status, r.expiry.text, r.revocation.text, r.serial, r.filename>>)
        \o r.subject.rest \o "\n"

\* Lines that hold no record: empty and blank lines, comments, lines that
\* have fewer than five fields once the surrounding whitespace is removed
\* (the last of them ends in the tab that would start its fifth field), lines
\* with another status, and lines with a timestamp that is no timestamp.
BadLines ==
    { "\n",
      "   \n",
      "# serial file\n",
      "#V\t300101000000Z\t\t01\tunknown\t/CN=server1\n",
      "V\n",
      "V\t300101000000Z\t\t01\n",
      "V\t300101000000Z\t\t01\t\n",
      "X\t300101000000Z\t\t01\tunknown\t/CN=server1\n",
      "v\t300101000000Z\t\t01\tunknown\t/CN=server1\n",
      "V\tnotadate\t\t01\tunknown\t/CN=server1\n",
      "V\t301301000000Z\t\t01\tunknown\t/CN=server1\n",
      "V\t\t\t01\tunknown\t/CN=server1\n",
      "R\t300101000000Z\tyesterday\t02\tunknown\t/CN=client1\n",
      "R\t300101000000Z\t250230000000Z\t02\tunknown\t/CN=client1\n" }

\* Records of certificates that easy-rsa issued under a name and later
\* revoked or not, for cleanup_revoked.
IssuedRecord(status, revocation, serial, cn) ==
    [status |-> status,
     expiry |-> [text |-> "300101000000Z", at |-> <<2030, 1, 1, 0, 0, 0>>],
     revocation |-> revocation, serial |-> serial, filename |-> "unknown",
     subject |-> [rest |-> "\t/CN=" \o cn, cn |-> cn]]

CleanupRecords ==
    { IssuedRecord("R", [text |-> "991231120000Z", at |-> <<1999, 12, 31, 12, 0, 0>>], "02", "client1"),
      IssuedRecord("R", [text |-> "991231120000Z", at |-> <<1999, 12, 31, 12, 0, 0>>], "03", "server1"),
      IssuedRecord("V", [text |-> "", at |-> NoDate], "04", "server2"),
      IssuedRecord("V", [text |-> "", at |-> NoDate], "05", "client1") }

CleanupLines == {Format(r) : r \in CleanupRecords}
CleanupNames == {r.subject.cn : r \in CleanupRecords}

\* The lines handed to parse_index_line.
ParserLines == {Format(r) : r \in Records} \cup BadLines

\* The lines written to the files that parse_index_file reads.
FileLines ==
    { "V\t300101000000Z\t\t01\tunknown\t/CN=server1\n",
      "R\t240229235959Z\t991231120000Z\t0A1F\tserver1.crt\tC=DE, CN = client1, O=Lab\n",
      "E\t240229235959Z\t\t01\tunknown\n",
      "\n",
      "# serial file\n",
      "V\t300101000000Z\t\t01\n",
      "X\t300101000000Z\t\t01\tunknown\t/CN=server1\n",
      "V\tnotadate\t\t01\tunknown\t/CN=server1\n",
      "R\t300101000000Z\tyesterday\t02\tunknown\t/CN=client1\n" }

EmptyFs ==
    [pki_dir |-> FALSE, ca_crt |-> FALSE, index_exists |-> FALSE,
     index |-> << >>, issued |-> {}, private |-> {}, reqs_dir |-> FALSE,
     reqs |-> {}, revoked_dir |-> "absent", revoked |-> {}, immovable |-> {}]

\* os.path.exists(path) / Path.exists() when the directory holds dir.
ExistsIn(dir, path) ==
    LET root == settings_pki_dir
    IN  CASE path = <<root>>               -> dir.pki_dir
          [] path = <<root, "ca.crt">>     -> dir.ca_crt
          [] path = <<root, "index.txt">>  -> dir.index_exists
          [] path = <<root, "reqs">>       -> dir.reqs_dir
          [] path = <<root, "revoked">>    -> dir.revoked_dir # "absent"
          [] Len(path) = 4 /\ path[1] = root /\ path[2] = "issued" /\ path[4] = ".crt"
                                           -> path[3] \in dir.issued
          [] Len(path) = 4 /\ path[1] = root /\ path[2] = "private" /\ path[4] = ".key"
                                           -> path[3] \in dir.private
          [] Len(path) = 4 /\ path[1] = root /\ path[2] = "reqs" /\ path[4] = ".req"
                                           -> path[3] \in dir.reqs
          [] Len(path) = 4 /\ path[1] = root /\ path[2] = "revoked" /\ path[4] = ".crt"
                                           -> path[3] \in dir.revoked
          [] OTHER                         -> FALSE

\* os.path.exists(path) / Path.exists()
Exists(path) == ExistsIn(fs, path)

\* datetime(year, month, day, hour, minute, second)
datetime(year, month, day, hour, minute, second) ==
    <<year, month, day, hour, minute, second>>

\* The ValueError that strptime raises, where it would return a datetime.
ValueError == <<"ValueError">>

\* calendar.monthrange(year, month)[1]
DaysInMonth(year, month) ==
    IF month = 2
    THEN (IF year % 4 = 0 /\ (year % 100 # 0 \/ year % 400 = 0) THEN 29 ELSE 28)
    ELSE IF month \in {4, 6, 9, 11} THEN 30 ELSE 31

\* t is matched by an alternative of the regex group that _strptime compiles
\* the directive to: y \d\d, m 1[0-2]|0[1-9]|[1-9],
\* d 3[0-1]|[1-2]\d|0[1-9]|[1-9]| [1-9], H 2[0-3]|[0-1]\d|\d, M [0-5]\d|\d,
\* S 6[0-1]|[0-5]\d|\d.
DirectiveMatches(directive, t) ==
    CASE directive = "y" -> Len(t) = 2 /\ IsNumber(t)
      [] directive = "m" ->
             IsNumber(t) /\ int(t) \in (IF Len(t) = 2 THEN 1..12 ELSE 1..9)
      [] directive = "d" ->
             \/ IsNumber(t) /\ int(t) \in (IF Len(t) = 2 THEN 1..31 ELSE 1..9)
             \/ Len(t) = 2 /\ At(t, 1) = " " /\ Digit(At(t, 2)) \in 1..9
      [] directive = "H" -> IsNumber(t) /\ int(t) \in 0..23
      [] directive = "M" -> IsNumber(t) /\ int(t) \in 0..59
      [] directive = "S" -> IsNumber(t) /\ int(t) \in 0..61

NoMatch == << >>

\* re.match of the compiled format at the start of s: the groups found and
\* then what is left of s, or NoMatch.  Each group tries its two-character
\* alternatives before the one-character one, and gives way when the rest of
\* the pattern does not match; the match is case-insensitive.
RECURSIVE MatchDirectives(_, _)
MatchDirectives(directives, s) ==
    IF directives = << >>
    THEN (IF s # "" /\ At(s, 1) \in {"Z", "z"} THEN <<From(s, 2)>> ELSE NoMatch)
    ELSE LET two == IF Len(s) >= 2 /\ DirectiveMatches(Head(directives), SubSeq(s, 1, 2))
                    THEN MatchDirectives(Tail(directives), From(s, 3))
                    ELSE NoMatch
             one == IF Len(s) >= 1 /\ DirectiveMatches(Head(directives), At(s, 1))
                    THEN MatchDirectives(Tail(directives), From(s, 2))
                    ELSE NoMatch
         IN  IF two # NoMatch THEN <<SubSeq(s, 1, 2)>> \o two
             ELSE IF one # NoMatch THEN <<At(s, 1)>> \o one
             ELSE NoMatch

\* datetime(...) with the checks of its constructor; yy is the two-digit
\* year, which strptime places in 1969..2068.
CheckedDatetime(yy, month, day, hour, minute, second) ==
    IF day > DaysInMonth(IF yy <= 68 THEN 2000 + yy ELSE 1900 + yy, month)
       \/ second > 59
    THEN ValueError
    ELSE datetime(IF yy <= 68 THEN 2000 + yy ELSE 1900 + yy, month, day,
                  hour, minute, second)

\* What strptime makes of the match: no match and text left after the match
\* are ValueErrors.
FromGroups(found) ==
    IF found = NoMatch THEN ValueError
    ELSE IF found[7] # "" THEN ValueError
    ELSE CheckedDatetime(int(found[1]), int(found[2]), int(found[3]),
                         int(found[4]), int(found[5]), int(found[6]))

\* datetime.strptime(s, '%y%m%d%H%M%SZ'): the datetime, or ValueError.
strptime(s) == FromGroups(MatchDirectives(<<"y", "m", "d", "H", "M", "S">>, s))

\* The longest prefix of s that holds no character c: what [^c]* matches.
UpTo(s, c) ==
    LET i == find(s, c, 1) IN IF i = 0 THEN s ELSE SubSeq(s, 1, i - 1)

\* The first position from i on that holds no whitespace: where \s* ends.
RECURSIVE SkipSpace(_, _)
SkipSpace(s, i) ==
    IF i <= Len(s) /\ At(s, i) \in Whitespace THEN SkipSpace(s, i + 1) ELSE i

\* re.search(r'/CN=([^/]+)', dn) from position i on: group 1, or "" for no
\* match (a group is never empty).
RECURSIVE SearchSlashCN(_, _)
SearchSlashCN(dn, i) ==
    LET j == find(dn, "/CN=", i)
    IN  IF j = 0 THEN ""
        ELSE LET group == UpTo(From(dn, j + 4), "/")
             IN  IF group # "" THEN group ELSE SearchSlashCN(dn, j + 1)

\* re.search(r'CN\s*=\s*([^,]+)', dn) from position i on: group 1, or "" for
\* no match.  When nothing but a comma or the end follows the whitespace
\* after '=', the second \s* gives its last character to the group.
RECURSIVE SearchCN(_, _)
SearchCN(dn, i) ==
    LET j == find(dn, "CN", i)
    IN  IF j = 0 THEN ""
        ELSE LET e == SkipSpace(dn, j + 2)
             IN  IF e > Len(dn) \/ At(dn, e) # "=" THEN SearchCN(dn, j + 1)
                 ELSE LET k == SkipSpace(dn, e + 1)
                          group == UpTo(From(dn, k), ",")
                      IN  IF group # "" THEN group
                          ELSE IF k > e + 1 THEN At(dn, k - 1)
                          ELSE SearchCN(dn, j + 1)

\* extract_cn_from_dn without the strip() of the second form.
extract_cn_from_dn_Unstripped(dn) ==
    IF SearchSlashCN(dn, 1) # "" THEN SearchSlashCN(dn, 1)
    ELSE IF SearchCN(dn, 1) # "" THEN SearchCN(dn, 1)
    ELSE ""

\* EasyRSAParser.extract_cn_from_dn(dn)
extract_cn_from_dn(dn) ==
    IF SearchSlashCN(dn, 1) # "" THEN SearchSlashCN(dn, 1)
    ELSE IF SearchCN(dn, 1) # "" THEN strip(SearchCN(dn, 1))
    ELSE ""

NoCert == << >>

\* The end of the try block of parse_index_line: the Certificate, or None
\* when strptime raised.
CertificateOrNone(parts, expiration_date, revocation_date) ==
    IF expiration_date = ValueError \/ revocation_date = ValueError THEN NoCert
    ELSE <<Certificate(parts[1], expiration_date, revocation_date, parts[4],
                       IF Len(parts) > 4 THEN parts[5] ELSE "unknown",
                       extract_cn_from_dn(IF Len(parts) > 5 THEN parts[6] ELSE ""))>>

\* parse_index_line that parses the revocation field even when it is empty.
parse_index_line_RevocationRequired(line) ==
    LET stripped == strip(line)
        parts == split(stripped, "\t")
    IN  IF stripped = "" \/ startswith(stripped, "#") THEN NoCert
        ELSE IF Len(parts) < 5 THEN NoCert
        ELSE IF parts[1] \notin {"V", "R", "E"} THEN NoCert
        ELSE CertificateOrNone(parts, strptime(parts[2]), strptime(parts[3]))

\* EasyRSAParser.parse_index_line(line): <<certificate>>, or << >> for None.
parse_index_line(line) ==
    LET stripped == strip(line)
        parts == split(stripped, "\t")
    IN  IF stripped = "" \/ startswith(stripped, "#") THEN NoCert
        ELSE IF Len(parts) < 5 THEN NoCert
        ELSE IF parts[1] \notin {"V", "R", "E"} THEN NoCert
        ELSE CertificateOrNone(parts, strptime(parts[2]),
                               IF parts[3] # "" THEN strptime(parts[3]) ELSE NoDate)

\* parse_index_line depends on its argument alone: its value on each line
\* that is ever written or passed is computed once.
ParsedLine ==
    [line \in IndexLines \cup ParserLines \cup CleanupLines |-> parse_index_line(line)]

\* The loop of parse_index_file, were it to end at the first line that
\* holds no certificate.
RECURSIVE ParseLines_StopAtBad(_)
ParseLines_StopAtBad(lines) ==
    IF lines = << >> THEN << >>
    ELSE IF ParsedLine[Head(lines)] = NoCert THEN << >>
    ELSE ParsedLine[Head(lines)] \o ParseLines_StopAtBad(Tail(lines))

\* for line in f: cert = parse_index_line(line); if cert: append
RECURSIVE ParseLines(_)
ParseLines(lines) ==
    IF lines = << >> THEN << >>
    ELSE ParsedLine[Head(lines)] \o ParseLines(Tail(lines))

\* EasyRSAParser.parse_index_file(index_path)
parse_index_file(index_path) ==
    IF index_path = <<settings_pki_dir, "index.txt">> /\ fs.index_exists
    THEN ParseLines(fs.index)
    ELSE << >>

(***************************************************************************)
(* PKIInfo (models.py) and PKIManager (pki.py).                            *)
(***************************************************************************)
NoInfo ==
    [built |-> FALSE, pki_dir |-> "", ca_exists |-> FALSE,
     ca_cert_path |-> NoPath, ca_key_path |-> NoPath,
     issued_dir |-> NoPath, private_dir |-> NoPath, reqs_dir |-> NoPath,
     revoked_dir |-> NoPath, index_file |-> NoPath, serial_file |-> NoPath]

\* PKIManager.get_pki_info()
get_pki_info(self) ==
    LET pki_path == <<self.pki_dir>>
        ca_cert_path == pki_path \o <<"ca.crt">>
        ca_key_path == pki_path \o <<"private", "ca", ".key">>
    IN  [built        |-> TRUE,
         pki_dir      |-> self.pki_dir,
         ca_exists    |-> Exists(ca_cert_path),
         ca_cert_path |-> IF Exists(ca_cert_path) THEN ca_cert_path ELSE NoPath,
         ca_key_path  |-> IF Exists(ca_key_path) THEN ca_key_path ELSE NoPath,
         issued_dir   |-> pki_path \o <<"issued">>,
         private_dir  |-> pki_path \o <<"private">>,
         reqs_dir     |-> pki_path \o <<"reqs">>,
         revoked_dir  |-> pki_path \o <<"revoked">>,
         index_file   |-> pki_path \o <<"index.txt">>,
         serial_file  |-> pki_path \o <<"serial">>]

\* PKIInfo.is_initialized()
PKIInfo_is_initialized(info) ==
    Exists(<<info.pki_dir>>) /\ Exists(info.index_file)

\* has_ca that is content with the certificate.
PKIInfo_has_ca_CertOnly(info) ==
    IF ~info.ca_exists THEN FALSE
    ELSE IF info.ca_cert_path = NoPath THEN FALSE
    ELSE Exists(info.ca_cert_path)

\* PKIInfo.has_ca()
PKIInfo_has_ca(info) ==
    IF ~info.ca_exists THEN FALSE
    ELSE IF info.ca_cert_path = NoPath \/ info.ca_key_path = NoPath THEN FALSE
    ELSE Exists(info.ca_cert_path) /\ Exists(info.ca_key_path)

\* PKIManager.is_initialized()
is_initialized(self) == Exists(<<self.pki_dir>>)

\* PKIManager.has_ca()
has_ca(self) == PKIInfo_has_ca(get_pki_info(self))

\* [c for c in certificates if c.status == status_filter]
RECURSIVE FilterStatus(_, _)
FilterStatus(certificates, status_filter) ==
    IF certificates = << >> THEN << >>
    ELSE (IF Head(certificates).status = status_filter
          THEN <<Head(certificates)>> ELSE << >>)
         \o FilterStatus(Tail(certificates), status_filter)

\* PKIManager.list_certificates(status_filter); None is no filter.
list_certificates(self, status_filter) ==
    LET pki_info == get_pki_info(self)
    IN  IF ~Exists(pki_info.index_file) THEN << >>
        ELSE LET certificates == parse_index_file(pki_info.index_file)
             IN  IF status_filter # None
                 THEN FilterStatus(certificates, status_filter)
                 ELSE certificates

\* The scan with a comparison that ignores case.
RECURSIVE FirstNamed_Folded(_, _)
FirstNamed_Folded(certificates, name) ==
    IF certificates = << >> THEN NoCert
    ELSE IF lower(Head(certificates).common_name) = lower(name) THEN <<Head(certificates)>>
    ELSE FirstNamed_Folded(Tail(certificates), name)

RECURSIVE FirstNamed(_, _)
FirstNamed(certificates, name) ==
    IF certificates = << >> THEN NoCert
    ELSE IF Head(certificates).common_name = name THEN <<Head(certificates)>>
    ELSE FirstNamed(Tail(certificates), name)

\* PKIManager.get_certificate_by_name(name): <<certificate>>, or << >> for None.
get_certificate_by_name(self, name) ==
    FirstNamed(list_certificates(self, None), name)

\* get_certificate_path that returns the conventional location unseen.
get_certificate_path_Unchecked(self, name) ==
    get_pki_info(self).issued_dir \o <<name, ".crt">>

\* PKIManager.get_certificate_path(name)
get_certificate_path(self, name) ==
    LET pki_info == get_pki_info(self)
        cert_path == pki_info.issued_dir \o <<name, ".crt">>
    IN  IF Exists(cert_path) THEN cert_path ELSE NoPath

\* PKIManager.get_private_key_path(name)
get_private_key_path(self, name) ==
    LET pki_info == get_pki_info(self)
        key_path == pki_info.private_dir \o <<name, ".key">>
    IN  IF Exists(key_path) THEN key_path ELSE NoPath

\* get_request_path that looks for the request among the issued files.
get_request_path_LooksInIssued(self, name) ==
    LET pki_info == get_pki_info(self)
        req_path == pki_info.reqs_dir \o <<name, ".req">>
    IN  IF Exists(pki_info.issued_dir \o <<name, ".crt">>) THEN req_path ELSE NoPath

\* PKIManager.get_request_path(name)
get_request_path(self, name) ==
    LET pki_info == get_pki_info(self)
        req_path == pki_info.reqs_dir \o <<name, ".req">>
    IN  IF Exists(req_path) THEN req_path ELSE NoPath

\* get_ca_cert_path that answers from the PKIInfo built earlier, if any.
get_ca_cert_path_Cached(self) ==
    IF held.built THEN held.ca_cert_path ELSE get_pki_info(self).ca_cert_path

\* PKIManager.get_ca_cert_path()
get_ca_cert_path(self) == get_pki_info(self).ca_cert_path

RECURSIVE CountStatus(_, _)
CountStatus(certificates, status) ==
    IF certificates = << >> THEN 0
    ELSE (IF Head(certificates).status = status THEN 1 ELSE 0)
         + CountStatus(Tail(certificates), status)

\* count_certificates whose loop has no branch for Expired.
count_certificates_NoExpiredBranch(self) ==
    [total   |-> Len(list_certificates(self, None)),
     valid   |-> CountStatus(list_certificates(self, None), VALID),
     revoked |-> CountStatus(list_certificates(self, None), REVOKED),
     expired |-> 0]

\* PKIManager.count_certificates()
count_certificates(self) ==
    LET certificates == list_certificates(self, None)
    IN  [total   |-> Len(certificates),
         valid   |-> CountStatus(certificates, VALID),
         revoked |-> CountStatus(certificates, REVOKED),
         expired |-> CountStatus(certificates, EXPIRED)]

\* The sample names in the order sorted() gives them.
NameOrder == <<"ca", "client1", "server", "server1", "server2">>

\* PKIManager.list_certificate_requests()
list_certificate_requests(self) ==
    IF ~Exists(get_pki_info(self).reqs_dir) THEN << >>
    ELSE SelectSeq(NameOrder, LAMBDA n : n \in fs.reqs)

\* The loop body of cleanup_revoked, were count incremented before the move.
MoveOne_CountsAttempts(dir, cert_path, name) ==
    IF ~ExistsIn(dir, cert_path) THEN [moved |-> FALSE, dir |-> dir]
    ELSE IF dir.revoked_dir = "blocked" THEN [moved |-> TRUE, dir |-> dir]
    ELSE IF name \in dir.immovable
    THEN [moved |-> TRUE,
          dir |-> [dir EXCEPT !.revoked_dir = "dir", !.revoked = @ \cup {name}]]
    ELSE [moved |-> TRUE,
          dir |-> [dir EXCEPT !.revoked_dir = "dir", !.issued = @ \ {name},
                              !.revoked = @ \cup {name}]]

\* The loop body of cleanup_revoked for the certificate file cert_path of
\* name, on the directory dir: whether count is incremented, and the
\* directory afterwards.  makedirs raises when revoked/ cannot be created;
\* shutil.move of a file that cannot be removed from issued/ copies it to
\* revoked/ and raises from os.unlink.
MoveOne(dir, cert_path, name) ==
    IF ~ExistsIn(dir, cert_path) THEN [moved |-> FALSE, dir |-> dir]
    ELSE IF dir.revoked_dir = "blocked" THEN [moved |-> FALSE, dir |-> dir]
    ELSE IF name \in dir.immovable
    THEN [moved |-> FALSE,
          dir |-> [dir EXCEPT !.revoked_dir = "dir", !.revoked = @ \cup {name}]]
    ELSE [moved |-> TRUE,
          dir |-> [dir EXCEPT !.revoked_dir = "dir", !.issued = @ \ {name},
                              !.revoked = @ \cup {name}]]

\* count after one pass and the passes that follow it.
Tally(moved, rest) ==
    [count |-> rest.count + (IF moved THEN 1 ELSE 0), dir |-> rest.dir]

\* for cert in revoked_certs: ..., from the directory dir on.
RECURSIVE MoveRevoked(_, _, _)
MoveRevoked(self, dir, revoked_certs) ==
    IF revoked_certs = << >> THEN [count |-> 0, dir |-> dir]
    ELSE Tally(MoveOne(dir, get_pki_info(self).issued_dir
                                \o <<Head(revoked_certs).common_name, ".crt">>,
                       Head(revoked_certs).common_name).moved,
               MoveRevoked(self,
                           MoveOne(dir, get_pki_info(self).issued_dir
                                        \o <<Head(revoked_certs).common_name, ".crt">>,
                                   Head(revoked_certs).common_name).dir,
                           Tail(revoked_certs)))

\* PKIManager.cleanup_revoked(): the count it returns and the directory it
\* leaves.
cleanup_revoked(self) ==
    MoveRevoked(self, fs, list_certificates(self, REVOKED))

(***************************************************************************)
(* The store's operations as actions, and the writes of the external tool  *)
(* and of other processes to the PKI directory.                            *)
(***************************************************************************)
TheManager == [pki_dir |-> settings_pki_dir]

NoQuery == [op |-> None, arg |-> None]

QueryNames == {"server1", "client1", "server", "Server1", " server1"}
PathNames  == FileNames \cup {"ca", "client1"}
Filters    == {None, VALID, REVOKED, EXPIRED}

\* A write to the directory happens between two queries, not inside one.
WriteTo(newFs) ==
    /\ query = NoQuery
    /\ fs' = newFs
    /\ UNCHANGED <<held, query, ret>>
    /\ UNCHANGED <<runnerVars, certVars, uiVars>>

MakePkiDir == ~fs.pki_dir /\ WriteTo([EmptyFs EXCEPT !.pki_dir = TRUE])

RemovePkiDir == fs.pki_dir /\ WriteTo(EmptyFs)

CreateCaCert == fs.pki_dir /\ ~fs.ca_crt /\ WriteTo([fs EXCEPT !.ca_crt = TRUE])

DeleteCaCert == fs.ca_crt /\ WriteTo([fs EXCEPT !.ca_crt = FALSE])

CreateIndex ==
    fs.pki_dir /\ ~fs.index_exists /\ WriteTo([fs EXCEPT !.index_exists = TRUE])

DeleteIndex ==
    fs.index_exists /\ WriteTo([fs EXCEPT !.index_exists = FALSE, !.index = << >>])

AppendIndex ==
    /\ fs.index_exists
    /\ Len(fs.index) < MaxIndex
    /\ \E line \in IndexLines : WriteTo([fs EXCEPT !.index = Append(@, line)])

CreateFile ==
    /\ fs.pki_dir
    /\ \/ \E n \in FileNames \ fs.issued :
             WriteTo([fs EXCEPT !.issued = @ \cup {n}])
       \/ \E n \in (FileNames \cup {"ca"}) \ fs.private :
             WriteTo([fs EXCEPT !.private = @ \cup {n}])
       \/ \E n \in FileNames \ fs.reqs :
             fs.reqs_dir /\ WriteTo([fs EXCEPT !.reqs = @ \cup {n}])

MakeReqsDir ==
    fs.pki_dir /\ ~fs.reqs_dir /\ WriteTo([fs EXCEPT !.reqs_dir = TRUE])

RemoveReqsDir ==
    fs.reqs_dir /\ WriteTo([fs EXCEPT !.reqs_dir = FALSE, !.reqs = {}])

DeleteFile ==
    \/ \E n \in fs.issued  : WriteTo([fs EXCEPT !.issued = @ \ {n}])
    \/ \E n \in fs.private : WriteTo([fs EXCEPT !.private = @ \ {n}])
    \/ \E n \in fs.reqs    : WriteTo([fs EXCEPT !.reqs = @ \ {n}])

\* A caller asks for the PKIInfo and keeps it.
GetPkiInfo ==
    /\ query = NoQuery
    /\ held' = get_pki_info(TheManager)
    /\ UNCHANGED <<fs, query, ret>>
    /\ UNCHANGED <<runnerVars, certVars, uiVars>>

Answers(op, arg, value) ==
    /\ query = NoQuery
    /\ query' = [op |-> op, arg |-> arg]
    /\ ret' = value
    /\ UNCHANGED <<fs, held>>
    /\ UNCHANGED <<runnerVars, certVars, uiVars>>

HeldIsInitialized ==
    held.built /\ Answers("PKIInfo.is_initialized", None, PKIInfo_is_initialized(held))

HeldHasCa ==
    held.built /\ Answers("PKIInfo.has_ca", None, PKIInfo_has_ca(held))

IsInitialized == Answers("is_initialized", None, is_initialized(TheManager))

HasCa == Answers("has_ca", None, has_ca(TheManager))

ListCertificates ==
    \E f \in Filters :
        Answers("list_certificates", f, list_certificates(TheManager, f))

GetCertificateByName ==
    \E n \in QueryNames :
        Answers("get_certificate_by_name", n, get_certificate_by_name(TheManager, n))

GetCertificatePath ==
    \E n \in PathNames :
        Answers("get_certificate_path", n, get_certificate_path(TheManager, n))

GetPrivateKeyPath ==
    \E n \in PathNames :
        Answers("get_private_key_path", n, get_private_key_path(TheManager, n))

GetRequestPath ==
    \E n \in PathNames :
        Answers("get_request_path", n, get_request_path(TheManager, n))

GetCaCertPath == Answers("get_ca_cert_path", None, get_ca_cert_path(TheManager))

CountCertificates ==
    Answers("count_certificates", None, count_certificates(TheManager))

ListCertificateRequests ==
    Answers("list_certificate_requests", None, list_certificate_requests(TheManager))

\* The caller has used the answer.
Forget ==
    /\ query # NoQuery
    /\ query' = NoQuery
    /\ ret' = None
    /\ UNCHANGED <<fs, held>>
    /\ UNCHANGED <<runnerVars, certVars, uiVars>>

InitStore ==
    /\ fs = EmptyFs
    /\ held = NoInfo
    /\ query = NoQuery
    /\ ret = None
    /\ RunnerIdle
    /\ CertIdle
    /\ UiIdle

NextStore ==
    \/ MakePkiDir
    \/ RemovePkiDir
    \/ CreateCaCert
    \/ DeleteCaCert
    \/ CreateIndex
    \/ DeleteIndex
    \/ AppendIndex
    \/ MakeReqsDir
    \/ RemoveReqsDir
    \/ CreateFile
    \/ DeleteFile
    \/ GetPkiInfo
    \/ HeldIsInitialized
    \/ HeldHasCa
    \/ IsInitialized
    \/ HasCa
    \/ ListCertificates
    \/ GetCertificateByName
    \/ GetCertificatePath
    \/ GetPrivateKeyPath
    \/ GetRequestPath
    \/ GetCaCertPath
    \/ CountCertificates
    \/ ListCertificateRequests
    \/ Forget

SpecStore == InitStore /\ [][NextStore]_vars

(***************************************************************************)
(* Claims about the store, under SpecStore.                                *)
(***************************************************************************)
Root == settings_pki_dir

\* The records of the index file as it is on disk now.
OnDisk == IF fs.index_exists THEN ParseLines(fs.index) ELSE << >>

HasStatus(st) == {i \in DOMAIN OnDisk : OnDisk[i].status = st}
Named(n)      == {i \in DOMAIN OnDisk : OnDisk[i].common_name = n}
KeepStatus(certs, st) == SelectSeq(certs, LAMBDA c : c.status = st)

\* C6: whatever was asked and written before, the answer to a store query is
\* the one the directory's present contents give: the present index records
\* (all, by status, by name, counted) and the conventional path of a file
\* exactly when that file is there now.
C6_FreshReads ==
    /\ query.op = "list_certificates" =>
          ret = IF query.arg = None THEN OnDisk ELSE KeepStatus(OnDisk, query.arg)
    /\ query.op = "count_certificates" =>
          ret = [total   |-> Len(OnDisk),
                 valid   |-> Cardinality(HasStatus(VALID)),
                 revoked |-> Cardinality(HasStatus(REVOKED)),
                 expired |-> Cardinality(HasStatus(EXPIRED))]
    /\ query.op = "get_certificate_by_name" =>
          IF Named(query.arg) = {} THEN ret = NoCert
          ELSE \E i \in Named(query.arg) :
                  /\ \A j \in Named(query.arg) : i <= j
                  /\ ret = <<OnDisk[i]>>
    /\ query.op = "get_certificate_path" =>
          ret = IF query.arg \in fs.issued
                THEN <<Root, "issued", query.arg, ".crt">> ELSE NoPath
    /\ query.op = "get_private_key_path" =>
          ret = IF query.arg \in fs.private
                THEN <<Root, "private", query.arg, ".key">> ELSE NoPath
    /\ query.op = "get_request_path" =>
          ret = IF query.arg \in fs.reqs
                THEN <<Root, "reqs", query.arg, ".req">> ELSE NoPath
    /\ query.op = "get_ca_cert_path" =>
          ret = IF fs.ca_crt THEN <<Root, "ca.crt">> ELSE NoPath
    /\ query.op = "has_ca" => ret = (fs.ca_crt /\ "ca" \in fs.private)
    /\ query.op = "is_initialized" => ret = fs.pki_dir

\* An earlier get_pki_info() saw no CA certificate, the certificate was
\* written afterwards, and get_ca_cert_path() now returns its path.
C6_Witness ==
    /\ held.built
    /\ held.ca_cert_path = NoPath
    /\ query.op = "get_ca_cert_path"
    /\ ret = <<Root, "ca.crt">>
    /\ Len(OnDisk) = 2

\* C7: has_ca() and is_initialized() of a PKIInfo report what exists when
\* the accessor is called, not what existed when the PKIInfo was built.
C7_LiveAccessors ==
    /\ query.op = "PKIInfo.has_ca" => ret = (fs.ca_crt /\ "ca" \in fs.private)
    /\ query.op = "PKIInfo.is_initialized" => ret = (fs.pki_dir /\ fs.index_exists)

\* The lines of index.txt that hold a well-formed record of status st.
Written(st) ==
    {i \in DOMAIN fs.index : fs.index[i] \in IndexLines /\ startswith(fs.index[i], st \o "\t")}

\* C14: with N Valid, M Revoked and K Expired well-formed records in the
\* index file, count_certificates() returns total = N+M+K, valid = N,
\* revoked = M, expired = K; total = valid + revoked + expired, and each count
\* is the length of list_certificates filtered by that status.
C14_CountsByStatus ==
    query.op = "count_certificates" =>
        /\ ret.valid = Cardinality(Written("V"))
        /\ ret.revoked = Cardinality(Written("R"))
        /\ ret.expired = Cardinality(Written("E"))
        /\ ret.total = Cardinality(Written("V") \cup Written("R") \cup Written("E"))
        /\ ret.total = ret.valid + ret.revoked + ret.expired
        /\ ret.total = Len(list_certificates(TheManager, None))
        /\ ret.valid = Len(list_certificates(TheManager, VALID))
        /\ ret.revoked = Len(list_certificates(TheManager, REVOKED))
        /\ ret.expired = Len(list_certificates(TheManager, EXPIRED))

\* One record of each status.
C14_Witness ==
    /\ query.op = "count_certificates"
    /\ Len(fs.index) = 3
    /\ ret = [total |-> 3, valid |-> 1, revoked |-> 1, expired |-> 1]

PathResolvers ==
    {"get_certificate_path", "get_private_key_path", "get_request_path",
     "get_ca_cert_path"}

\* The conventional location that a resolver looks at.
Conventional(op, name) ==
    CASE op = "get_certificate_path" -> <<Root, "issued", name, ".crt">>
      [] op = "get_private_key_path" -> <<Root, "private", name, ".key">>
      [] op = "get_request_path"     -> <<Root, "reqs", name, ".req">>
      [] op = "get_ca_cert_path"     -> <<Root, "ca.crt">>

\* The file at that location is in the directory now.
FileThere(op, name) ==
    CASE op = "get_certificate_path" -> name \in fs.issued
      [] op = "get_private_key_path" -> name \in fs.private
      [] op = "get_request_path"     -> name \in fs.reqs
      [] op = "get_ca_cert_path"     -> fs.ca_crt

\* C16: each path resolver returns a path if and only if the file at the
\* conventional location exists at the time of the call, and the path it
\* returns is that location; it never returns the path of a missing file.
C16_PathIffExists ==
    query.op \in PathResolvers =>
        /\ (ret # NoPath) <=> FileThere(query.op, query.arg)
        /\ (ret # NoPath) => ret = Conventional(query.op, query.arg)
        /\ (ret # NoPath) => Exists(ret)

\* A request is found in reqs/ while no certificate of that name is issued.
C16_Witness ==
    /\ query.op = "get_request_path"
    /\ query.arg = "server1"
    /\ "server1" \notin fs.issued
    /\ ret = <<Root, "reqs", "server1", ".req">>

Uninitialised == fs = EmptyFs \/ fs = [EmptyFs EXCEPT !.pki_dir = TRUE]

\* C18: while the root is missing or holds nothing, every query returns its
\* empty default; list_certificates returns the empty sequence whenever
\* index.txt is absent, list_certificate_requests whenever reqs/ is absent,
\* and count_certificates and get_certificate_by_name see no certificate
\* while index.txt is absent.
C18_EmptyDefaults ==
    /\ ~fs.index_exists =>
          /\ query.op = "list_certificates" => ret = << >>
          /\ query.op = "count_certificates" =>
                ret = [total |-> 0, valid |-> 0, revoked |-> 0, expired |-> 0]
          /\ query.op = "get_certificate_by_name" => ret = NoCert
    /\ ~fs.reqs_dir =>
          (query.op = "list_certificate_requests" => ret = << >>)
    /\ Uninitialised =>
          /\ query.op \in PathResolvers => ret = NoPath
          /\ query.op \in {"list_certificates", "list_certificate_requests"} =>
                ret = << >>

\* The root is missing and a certificate is asked for by a status.
C18_Witness ==
    /\ ~fs.pki_dir
    /\ query = [op |-> "list_certificates", arg |-> REVOKED]
    /\ ret = << >>

(***************************************************************************)
(* cleanup_revoked against a directory in which certificates are issued    *)
(* and revoked, files get protected and revoked/ may be out of reach.      *)
(***************************************************************************)
RecordIssued ==
    /\ Len(fs.index) < MaxIndex
    /\ \E line \in CleanupLines : WriteTo([fs EXCEPT !.index = Append(@, line)])

IssueFile ==
    \E n \in CleanupNames \ fs.issued : WriteTo([fs EXCEPT !.issued = @ \cup {n}])

ProtectFile ==
    \E n \in fs.issued \ fs.immovable : WriteTo([fs EXCEPT !.immovable = @ \cup {n}])

BlockRevokedDir ==
    fs.revoked_dir = "absent" /\ WriteTo([fs EXCEPT !.revoked_dir = "blocked"])

CleanupRevoked ==
    /\ query = NoQuery
    /\ query' = [op |-> "cleanup_revoked", arg |-> None]
    /\ ret' = cleanup_revoked(TheManager).count
    /\ fs' = cleanup_revoked(TheManager).dir
    /\ UNCHANGED held
    /\ UNCHANGED <<runnerVars, certVars, uiVars>>

InitCleanup ==
    /\ fs = [EmptyFs EXCEPT !.pki_dir = TRUE, !.index_exists = TRUE]
    /\ held = NoInfo
    /\ query = NoQuery
    /\ ret = None
    /\ RunnerIdle
    /\ CertIdle
    /\ UiIdle

NextCleanup ==
    \/ RecordIssued
    \/ IssueFile
    \/ ProtectFile
    \/ BlockRevokedDir
    \/ CleanupRevoked
    \/ Forget

SpecCleanup == InitCleanup /\ [][NextCleanup]_vars

(***************************************************************************)
(* Claims about cleanup_revoked, under SpecCleanup.                        *)
(***************************************************************************)
\* The names with a Revoked record in the index of directory dir.
RevokedIn(dir) ==
    {r.subject.cn : r \in {c \in CleanupRecords : c.status = "R" /\ Format(c) \in Range(dir.index)}}

\* C15: cleanup_revoked returns (it does not raise) the number of files that
\* left issued/ for revoked/ during the call; a file whose move fails stays
\* in issued/ and is not counted, and every other revoked certificate's file
\* that can be moved is moved all the same.
C15_CountsMoves ==
    [][query'.op = "cleanup_revoked" =>
          /\ ret' \in 0..Cardinality(CleanupNames)
          /\ ret' = Cardinality({n \in fs.issued : n \notin fs'.issued /\ n \in fs'.revoked})
          /\ \A n \in RevokedIn(fs) \cap fs.issued :
                IF n \in fs.immovable \/ fs.revoked_dir = "blocked"
                THEN n \in fs'.issued
                ELSE n \notin fs'.issued /\ n \in fs'.revoked]_vars

\* Two revoked certificates: the file of the first could not be removed from
\* issued/, the file of the second was moved and counted.
C15_Witness ==
    /\ query.op = "cleanup_revoked"
    /\ ret = 1
    /\ Len(fs.index) = 2
    /\ fs.index[1] = "R\t300101000000Z\t991231120000Z\t02\tunknown\t/CN=client1\n"
    /\ fs.index[2] = "R\t300101000000Z\t991231120000Z\t03\tunknown\t/CN=server1\n"
    /\ "client1" \in fs.issued \cap fs.immovable
    /\ "server1" \in fs.revoked \ fs.issued

\* The names with a Valid record in the index of directory dir.
ValidIn(dir) ==
    {r.subject.cn : r \in {c \in CleanupRecords : c.status = "V" /\ Format(c) \in Range(dir.index)}}

\* C26: cleanup_revoked leaves the certificate file of every name that has
\* a Valid record in the index where it is: issued/<name>.crt, there before
\* the call, is there after it, also when the index holds a Revoked record
\* of the same name.
C26_ValidFilesStay ==
    [][query'.op = "cleanup_revoked" =>
          \A n \in ValidIn(fs) \cap fs.issued : n \in fs'.issued]_vars

(***************************************************************************)
(* The index parser on its own: index.txt is written line by line, and     *)
(* parse_index_file and parse_index_line are called.                       *)
(***************************************************************************)
WriteLine ==
    /\ Len(fs.index) < MaxFile
    /\ \E line \in FileLines : WriteTo([fs EXCEPT !.index = Append(@, line)])

ParseIndexFile ==
    Answers("parse_index_file", None,
            parse_index_file(<<settings_pki_dir, "index.txt">>))

ParseIndexLine ==
    \E line \in ParserLines : Answers("parse_index_line", line, ParsedLine[line])

InitParser ==
    /\ fs = [EmptyFs EXCEPT !.pki_dir = TRUE, !.index_exists = TRUE]
    /\ held = NoInfo
    /\ query = NoQuery
    /\ ret = None
    /\ RunnerIdle
    /\ CertIdle
    /\ UiIdle

NextParser ==
    \/ WriteLine
    \/ ParseIndexFile
    \/ Forget

SpecParser == InitParser /\ [][NextParser]_vars

\* parse_index_line called on a line, whatever index.txt holds.
InitLine ==
    /\ StoreIdle
    /\ RunnerIdle
    /\ CertIdle
    /\ UiIdle

NextLine ==
    \/ ParseIndexLine
    \/ Forget

SpecLine == InitLine /\ [][NextLine]_vars

(***************************************************************************)
(* Claims about the index parser, under SpecParser and SpecLine.           *)
(***************************************************************************)
LineOf == [r \in Records |-> Format(r)]
RecordOf(line) == CHOOSE r \in Records : LineOf[r] = line

\* The certificate that record r describes.
CertOf(r) ==
    Certificate(r.status, r.expiry.at, r.revocation.at, r.serial, r.filename,
                r.subject.cn)

\* The certificates of the well-formed lines among lines, in their order.
RECURSIVE WellFormedOf(_)
WellFormedOf(lines) ==
    IF lines = << >> THEN << >>
    ELSE (IF Head(lines) \in BadLines THEN << >>
          ELSE <<CertOf(RecordOf(Head(lines)))>>)
         \o WellFormedOf(Tail(lines))

\* C12: parse_index_file returns exactly the certificates of the well-formed
\* lines, in file order: an empty line, a comment, a line with fewer than
\* five fields, with a status other than V, R, E or with an unparsable
\* timestamp is skipped, wherever it stands among the well-formed lines.
C12_SkipsMalformed ==
    query.op = "parse_index_file" => ret = WellFormedOf(fs.index)

\* A malformed line between two well-formed ones: both are returned, in order.
C12_Witness ==
    /\ query.op = "parse_index_file"
    /\ Len(fs.index) = 3
    /\ fs.index[1] \notin BadLines
    /\ fs.index[2] = "V\tnotadate\t\t01\tunknown\t/CN=server1\n"
    /\ fs.index[3] \notin BadLines
    /\ Len(ret) = 2
    /\ ret[1].status = "V" /\ ret[2].status = "R"

\* C13: for a well-formed line, parse_index_line yields a Certificate whose
\* status, serial (the string as written), filename and common name are the
\* line's, whose expiration is the datetime the expiry field denotes, and
\* whose revocation date is absent exactly when the revocation field is
\* empty, and else the datetime that field denotes.
C13_FieldsOfLine ==
    query.op = "parse_index_line" =>
        \A r \in Records :
            query.arg = LineOf[r] =>
                /\ Len(ret) = 1
                /\ ret[1].status = r.status
                /\ ret[1].serial_number = r.serial
                /\ ret[1].filename = r.filename
                /\ ret[1].common_name = r.subject.cn
                /\ ret[1].expiration_date = r.expiry.at
                /\ (ret[1].revocation_date = NoDate) <=> (r.revocation.text = "")
                /\ ret[1].revocation_date = r.revocation.at

\* A revoked record whose serial starts with a zero and whose subject is in
\* the comma-separated form.
C13_Witness ==
    /\ query.op = "parse_index_line"
    /\ query.arg = "R\t240229235959Z\t991231120000Z\t0A1F\tserver1.crt\tC=DE, CN = client1, O=Lab\n"
    /\ ret = <<Certificate("R", <<2024, 2, 29, 23, 59, 59>>, <<1999, 12, 31, 12, 0, 0>>,
                           "0A1F", "server1.crt", "client1")>>

\* s.endswith(suffix)
endswith(s, suffix) ==
    Len(s) >= Len(suffix) /\ SubSeq(s, Len(s) - Len(suffix) + 1, Len(s)) = suffix

\* The positions of index.txt that hold a record of a known status whose
\* subject is /CN=name.
RecordsNamed(name) ==
    {i \in DOMAIN fs.index :
        /\ \E st \in {"V", "R", "E"} : startswith(fs.index[i], st \o "\t")
        /\ endswith(fs.index[i], "\t/CN=" \o name \o "\n")}

\* The certificate is the record at position i of index.txt.
IsRecordAt(certificate, i) ==
    /\ certificate.status = At(fs.index[i], 1)
    /\ certificate.serial_number = split(fs.index[i], "\t")[4]

\* C25: get_certificate_by_name(name) returns a certificate exactly when
\* index.txt holds a record whose common name is name, character for
\* character; the certificate is then the first such record of the file,
\* whatever its status; otherwise it returns None.
C25_ExactFirstMatch ==
    query.op = "get_certificate_by_name" =>
        IF RecordsNamed(query.arg) = {} THEN ret = NoCert
        ELSE /\ Len(ret) = 1
             /\ ret[1].common_name = query.arg
             /\ IsRecordAt(ret[1], Least(RecordsNamed(query.arg)))

\* An expired record of server1 stands before a valid one; the expired one
\* is returned.
C25_Witness ==
    /\ query.op = "get_certificate_by_name"
    /\ query.arg = "server1"
    /\ Len(fs.index) >= 2
    /\ startswith(fs.index[1], "E\t") /\ startswith(fs.index[2], "V\t")
    /\ Len(ret) = 1
    /\ ret[1].status = "E" /\ ret[1].serial_number = "03"

\* ---------------------------------------------------------------------------
\* IndexParser.parse_error_message: the diagnostics of a failed run reduced to
\* a short message.
\* ---------------------------------------------------------------------------

\* The number of lines a message keeps: the slices [:3].
KeptLines == 3

\* The number of characters the last fallback keeps: the slice [:200].
KeptChars == 200

\* The message for an empty text.
UnknownError == "Unknown error occurred"

\* seq[:4], in place of seq[:3].
FirstLines_Four(seq) ==
    IF Len(seq) <= KeptLines + 1 THEN seq ELSE SubSeq(seq, 1, KeptLines + 1)

\* seq[:3]
FirstLines(seq) ==
    IF Len(seq) <= KeptLines THEN seq ELSE SubSeq(seq, 1, KeptLines)

\* stderr[:200]
FirstChars(stderr) ==
    IF Len(stderr) <= KeptChars THEN stderr ELSE SubSeq(stderr, 1, KeptChars)

\* The loop without its test for "[" and "*".
ErrorLine_KeepsNoise(line) ==
    IF line = "" THEN << >>
    ELSE IF contains(lower(line), "error") \/ contains(lower(line), "failed") THEN <<line>>
    ELSE << >>

\* One turn of the loop over the lines, on the stripped line: what it appends
\* to error_lines.
ErrorLine(line) ==
    IF line = "" THEN << >>
    ELSE IF startswith(line, "[") \/ startswith(line, "*") THEN << >>
    ELSE IF contains(lower(line), "error") \/ contains(lower(line), "failed") THEN <<line>>
    ELSE << >>

\* error_lines after the loop.
RECURSIVE ErrorLines(_)
ErrorLines(lines) ==
    IF lines = << >> THEN << >>
    ELSE ErrorLine(strip(Head(lines))) \o ErrorLines(Tail(lines))

\* non_empty: the lines as split, those that strip() leaves something of.
NonEmpty(lines) == SelectSeq(lines, LAMBDA l : strip(l) # "")

\* The three returns after the loop.
Simplified(stderr, error_lines, non_empty) ==
    IF error_lines # << >> THEN join("\n", FirstLines(error_lines))
    ELSE IF non_empty # << >> THEN join("\n", FirstLines(non_empty))
    ELSE FirstChars(stderr)

SimplifiedLines(stderr, lines) == Simplified(stderr, ErrorLines(lines), NonEmpty(lines))

parse_error_message(stderr) ==
    IF stderr = "" THEN UnknownError
    ELSE SimplifiedLines(stderr, split(stderr, "\n"))

\* The lines the diagnostics are put together from: two that name an error
\* (one padded and in capitals), a bracketed and a starred line of the tool's
\* own chatter (the starred one with the word "failed" in it), an ordinary
\* line and a blank one.
ErrLines ==
    { "Easy-RSA error:",
      " Sign FAILED\t",
      "[debug] vars",
      "* failed lookup",
      "Using openssl",
      "  " }

Twice(half, rest) == half \o half \o rest

RECURSIVE Spaces(_)
Spaces(n) ==
    IF n = 0 THEN ""
    ELSE Twice(Spaces(n \div 2), IF n % 2 = 1 THEN " " ELSE "")

\* A text of nothing but spaces, longer than the last fallback keeps.
LongBlank == Spaces(KeptChars + 1)

ErrTexts ==
    {"", LongBlank} \cup
    { join("\n", ls) : ls \in UNION { [1..n -> ErrLines] : n \in 1..MaxLines } }

MessageOf == [text \in ErrTexts |-> parse_error_message(text)]

ParseErrorMessage ==
    \E text \in ErrTexts : Answers("parse_error_message", text, MessageOf[text])

InitMessage ==
    /\ StoreIdle
    /\ RunnerIdle
    /\ CertIdle
    /\ UiIdle

NextMessage ==
    \/ ParseErrorMessage
    \/ Forget

SpecMessage == InitMessage /\ [][NextMessage]_vars

\* The lines of a text, as "\n" separates them.
LinesOf(text) == split(text, "\n")

Noise(line) == startswith(line, "[") \/ startswith(line, "*")

Blank(text) == strip(text) = ""

\* C19: no line of the text parse_error_message returns starts with "[" or
\* "*", whichever of its returns produced the text.
C19_NoNoiseLines ==
    query.op = "parse_error_message" =>
        \A i \in 1..Len(LinesOf(ret)) : ~Noise(LinesOf(ret)[i])

\* C20, as stated: whatever the text, parse_error_message returns at most
\* three lines.
C20_AtMostThreeLines ==
    query.op = "parse_error_message" => Len(LinesOf(ret)) <= KeptLines

\* C20, amended: parse_error_message returns at most three lines for every
\* text that has a non-blank line or is empty; for a text of nothing but
\* whitespace it returns the first 200 characters of the text as they are,
\* however many line breaks they hold.
C20_ThreeLinesOrBlank ==
    query.op = "parse_error_message" =>
        IF query.arg # "" /\ Blank(query.arg)
        THEN ret = FirstChars(query.arg) /\ Len(ret) <= KeptChars
        ELSE Len(LinesOf(ret)) <= KeptLines

\* A text of four lines that all name an error, cut down to its first three.
C20_Witness ==
    /\ query.op = "parse_error_message"
    /\ query.arg = "Easy-RSA error:\n Sign FAILED\t\nEasy-RSA error:\nEasy-RSA error:"
    /\ ret = "Easy-RSA error:\nSign FAILED\nEasy-RSA error:"

\* The lines of a text with the whitespace around each removed.
StrippedLines(lines) == [i \in 1..Len(lines) |-> strip(lines[i])]

NamesError(line) == contains(lower(line), "error") \/ contains(lower(line), "failed")

\* The lines of a text that are not noise and name an error, in the order of
\* the text, each without the whitespace around it.
Preferred(text) ==
    SelectSeq(StrippedLines(LinesOf(text)), LAMBDA l : ~Noise(l) /\ NamesError(l))

UpToThree(seq) == [i \in 1..(IF Len(seq) < 3 THEN Len(seq) ELSE 3) |-> seq[i]]

\* C21: when a line of the text that is not noise contains "error" or
\* "failed" in any case, parse_error_message returns the first three (or
\* fewer) such lines in the order of the text and no other line; for the
\* empty text it returns "Unknown error occurred".
C21_PreferredLines ==
    query.op = "parse_error_message" =>
        /\ query.arg = "" => ret = "Unknown error occurred"
        /\ Preferred(query.arg) # << >> =>
               LinesOf(ret) = UpToThree(Preferred(query.arg))

\* One line that names an error between a noise line that does too, and an
\* ordinary line.
C21_Witness ==
    /\ query.op = "parse_error_message"
    /\ query.arg = "* failed lookup\n Sign FAILED\t\nUsing openssl"
    /\ ret = "Sign FAILED"

\* ---------------------------------------------------------------------------
\* IndexParser.extract_cn_from_dn on distinguished names.
\* ---------------------------------------------------------------------------

\* An attribute of a distinguished name.
Attr(key, value) == [key |-> key, value |-> value]

\* The attributes that stand before and after the common name.
AttrsBefore == { << >>, <<Attr("C", "DE")>>, <<Attr("C", "DE"), Attr("O", "Lab 7")>> }
AttrsAfter == { << >>, <<Attr("O", "MyOrg")>>, <<Attr("OU", "ops"), Attr("emailAddress", "a@lab.example")>> }

\* The common names; the empty string stands for a name without a CN.
CommonNames == { "", "server1", "vpn client", "host-7.lab.example", "Doe John" }

\* How a name is written: with slashes, with commas, with commas and blanks
\* around the "=" of the CN, and with commas and whitespace all around.
DnStyles == { "slash", "comma", "spaced", "padded" }

Dns == [before : AttrsBefore, cn : CommonNames, after : AttrsAfter, style : DnStyles]

CnAttr(cn, style) ==
    IF cn = "" THEN << >>
    ELSE IF style = "spaced" THEN <<"CN = " \o cn>>
    ELSE IF style = "padded" THEN <<"CN\t=  " \o cn \o " ">>
    ELSE <<"CN=" \o cn>>

Written1(attrs) == [i \in 1..Len(attrs) |-> attrs[i].key \o "=" \o attrs[i].value]

Pieces(d) == Written1(d.before) \o CnAttr(d.cn, d.style) \o Written1(d.after)

Slashed(pieces) == IF pieces = << >> THEN "" ELSE "/" \o join("/", pieces)

\* The text of a distinguished name.
DnText(d) == IF d.style = "slash" THEN Slashed(Pieces(d)) ELSE join(", ", Pieces(d))

TextOfDn == [d \in Dns |-> DnText(d)]

DnTexts == { TextOfDn[d] : d \in Dns }

CnOf == [dn \in DnTexts |-> extract_cn_from_dn(dn)]

ExtractCn ==
    \E dn \in DnTexts : Answers("extract_cn_from_dn", dn, CnOf[dn])

InitDn ==
    /\ StoreIdle
    /\ RunnerIdle
    /\ CertIdle
    /\ UiIdle

NextDn ==
    \/ ExtractCn
    \/ Forget

SpecDn == InitDn /\ [][NextDn]_vars

\* C22: extract_cn_from_dn returns the common name of a distinguished name
\* written in either form -- for the slash form the text between "/CN=" and
\* the next "/", for the comma form the text after CN and "=" up to the next
\* "," without the whitespace around it -- and the empty string for a name
\* that has no CN.
C22_CommonName ==
    query.op = "extract_cn_from_dn" =>
        \A d \in Dns : query.arg = TextOfDn[d] => ret = d.cn

\* A comma-separated name with whitespace all around the CN, between two
\* other attributes.
C22_Witness ==
    /\ query.op = "extract_cn_from_dn"
    /\ query.arg = "C=DE, CN\t=  vpn client , O=MyOrg"
    /\ ret = "vpn client"

\* ---------------------------------------------------------------------------
\* EasyRSAWrapper.set_vars: the variables a vars file defines.
\* ---------------------------------------------------------------------------

\* The positions of the characters of s that are not in chars.
Outside(s, chars) == {j \in 1..Len(s) : At(s, j) \notin chars}

Between(s, kept) == IF kept = {} THEN "" ELSE SubSeq(s, Least(kept), Greatest(kept))

\* s.strip(chars)
strip_chars(s, chars) == Between(s, Outside(s, chars))

\* The positions of the whitespace of s.
Blanks(s) == {j \in 1..Len(s) : At(s, j) \in Whitespace}

\* The two parts of a text that starts with a word, cut at the whitespace
\* at position i (0: there is none).
WordAndRest(s, i) ==
    IF i = 0 THEN <<s>>
    ELSE IF lstrip(From(s, i)) = "" THEN <<SubSeq(s, 1, i - 1)>>
    ELSE <<SubSeq(s, 1, i - 1), lstrip(From(s, i))>>

FirstWord(s) == IF s = "" THEN << >> ELSE WordAndRest(s, FirstOrZero(Blanks(s)))

\* s.split(None, 1)
split_whitespace_once(s) == FirstWord(lstrip(s))

CutAt(s, i) == IF i = 0 THEN <<s>> ELSE <<SubSeq(s, 1, i - 1), From(s, i + 1)>>

\* s.split(sep, 1) for a one-character sep
split_once(s, sep) == CutAt(s, find(s, sep, 1))

Quotes == {"\"", "'"}

\* env_vars[key] = value
setitem(env_vars, key, value) ==
    [k \in DOMAIN env_vars \cup {key} |-> IF k = key THEN value ELSE env_vars[k]]

\* The export branch without the strip of the quotes.
ExportLine_KeepsQuotes(env_vars, parts) ==
    IF Len(parts) = 2 THEN setitem(env_vars, strip(parts[1]), parts[2]) ELSE env_vars

\* The set_var branch, on the parts of the line after 'set_var '.
SetVarLine(env_vars, parts) ==
    IF Len(parts) = 2 THEN setitem(env_vars, parts[1], strip_chars(parts[2], Quotes))
    ELSE env_vars

\* The export branch, on the parts of the line after 'export '.
ExportLine(env_vars, parts) ==
    IF Len(parts) = 2
    THEN setitem(env_vars, strip(parts[1]), strip_chars(parts[2], Quotes))
    ELSE env_vars

\* One turn of the loop over the file, on the stripped line.
VarsLine(env_vars, line) ==
    IF startswith(line, "set_var ") THEN SetVarLine(env_vars, split_whitespace_once(From(line, 9)))
    ELSE IF startswith(line, "export ") THEN ExportLine(env_vars, split_once(From(line, 8), "="))
    ELSE env_vars

\* A definition as a vars file may hold it.
VarDefs == [kind : {"set_var", "export"}, name : {"FOO", "X"}, value : {"bar baz", "1"}, quote : {"", "\""}]

\* The line that a definition is written as.
VarText(v) ==
    (IF v.kind = "set_var" THEN "set_var " \o v.name \o " " ELSE "export " \o v.name \o "=")
        \o v.quote \o v.value \o v.quote \o "\n"

\* Lines that define nothing: a comment, a set_var without a value, an
\* export without "=", and words that only start like the two keywords.
OtherLines ==
    { "# easy-rsa parameter settings\n",
      "set_var EASYRSA_BATCH\n",
      "export EASYRSA\n",
      "set_var_x FOO 2\n",
      "exported X=2\n" }

\* Definitions written otherwise than VarText writes them: indented with a
\* tab between name and value and single quotes, and an export with the
\* value in single quotes and a line end of "\r\n".
OddDefs ==
    { [text |-> "\tset_var  EASYRSA_REQ_CN\t'vpn client'\n", name |-> "EASYRSA_REQ_CN", value |-> "vpn client"],
      [text |-> "export EASYRSA_PKI='/srv/pki'\r\n", name |-> "EASYRSA_PKI", value |-> "/srv/pki"] }

VarsLines == {VarText(v) : v \in VarDefs} \cup OtherLines \cup {o.text : o \in OddDefs}

\* What one line does to a mapping that holds nothing yet.
VarsOfLine == [line \in VarsLines |-> VarsLine(NoEnvVars, strip(line))]

\* The loop over the lines of the file: what a line sets replaces what was
\* set before.
RECURSIVE ReadVars(_, _)
ReadVars(env_vars, lines) ==
    IF lines = << >> THEN env_vars
    ELSE ReadVars(VarsOfLine[Head(lines)] @@ env_vars, Tail(lines))

\* A vars file: whether it exists, whether it can be read, its lines.
NoVarsFile == [exists |-> FALSE, readable |-> TRUE, lines |-> << >>]

\* set_vars(self, vars_file), given the file that vars_file names; self is
\* not used.
set_vars(self, vars_file) ==
    IF ~vars_file.exists THEN NoEnvVars
    ELSE IF ~vars_file.readable THEN NoEnvVars
    ELSE ReadVars(NoEnvVars, vars_file.lines)

CreateVarsFile ==
    /\ query = NoQuery
    /\ ~fs.exists
    /\ fs' = [fs EXCEPT !.exists = TRUE]
    /\ UNCHANGED <<held, query, ret>>
    /\ UNCHANGED <<runnerVars, certVars, uiVars>>

WriteVarsLine ==
    /\ query = NoQuery
    /\ fs.exists
    /\ Len(fs.lines) < MaxVars
    /\ \E line \in VarsLines : fs' = [fs EXCEPT !.lines = Append(@, line)]
    /\ UNCHANGED <<held, query, ret>>
    /\ UNCHANGED <<runnerVars, certVars, uiVars>>

ProtectVarsFile ==
    /\ query = NoQuery
    /\ fs.exists /\ fs.readable
    /\ fs' = [fs EXCEPT !.readable = FALSE]
    /\ UNCHANGED <<held, query, ret>>
    /\ UNCHANGED <<runnerVars, certVars, uiVars>>

SetVars == Answers("set_vars", "vars", set_vars(None, fs))

InitVars ==
    /\ fs = NoVarsFile
    /\ held = None
    /\ query = NoQuery
    /\ ret = None
    /\ RunnerIdle
    /\ CertIdle
    /\ UiIdle

NextVars ==
    \/ CreateVarsFile
    \/ WriteVarsLine
    \/ ProtectVarsFile
    \/ SetVars
    \/ Forget

SpecVars == InitVars /\ [][NextVars]_vars

\* The definitions the lines of a file hold, by position: the name and the
\* value of line i when it is a definition.
DefinedAt(lines, i) ==
    {[name |-> v.name, value |-> v.value] : v \in {w \in VarDefs : VarText(w) = lines[i]}}
        \cup {[name |-> o.name, value |-> o.value] : o \in {w \in OddDefs : w.text = lines[i]}}

DefinedNames(lines) == {d.name : d \in UNION {DefinedAt(lines, i) : i \in 1..Len(lines)}}

\* The last line of the file that defines name gives it this value.
LastDefines(lines, name, value) ==
    \E i \in 1..Len(lines) :
        /\ [name |-> name, value |-> value] \in DefinedAt(lines, i)
        /\ \A j \in (i + 1)..Len(lines) : \A d \in DefinedAt(lines, j) : d.name # name

\* C23: set_vars returns a mapping whose keys are exactly the names that
\* the set_var and export lines of the file define, each with the value its
\* (last) line gives it, quotes removed; other lines add nothing; a file
\* that is missing, or that cannot be read, gives the empty mapping.
C23_VarsOfFile ==
    query.op = "set_vars" =>
        IF fs.exists /\ fs.readable
        THEN /\ DOMAIN ret = DefinedNames(fs.lines)
             /\ \A name \in DOMAIN ret : LastDefines(fs.lines, name, ret[name])
        ELSE ret = NoEnvVars

\* The file with set_var FOO "bar baz", export X=1 and a comment.
C23_Witness ==
    /\ query.op = "set_vars"
    /\ fs.exists /\ fs.readable
    /\ fs.lines = <<"set_var FOO \"bar baz\"\n", "export X=1\n", "# easy-rsa parameter settings\n">>
    /\ DOMAIN ret = {"FOO", "X"}
    /\ ret["FOO"] = "bar baz"
    /\ ret["X"] = "1"

\* ---------------------------------------------------------------------------
\* IndexParser.detect_cert_type: the type of a certificate file.
\* ---------------------------------------------------------------------------

CA == "ca"
SERVER == "server"
CLIENT == "client"
CertificateType == {CA, SERVER, CLIENT}

\* What running openssl x509 -ext keyUsage,extendedKeyUsage on the file
\* comes to: it completes with some standard output (empty when it exits
\* with an error), or subprocess.run raises (no openssl, or the timeout).
Inspected(stdout) == [kind |-> "completed", stdout |-> stdout]
InspectionRaises == [kind |-> "raises", stdout |-> ""]

Inspections ==
    { Inspected("X509v3 Extended Key Usage: \n    TLS Web Server Authentication\n"),
      Inspected("X509v3 Extended Key Usage: \n    TLS Web Client Authentication\n"),
      Inspected("X509v3 Key Usage: critical\n    Certificate Sign, CRL Sign\n"),
      Inspected("X509v3 Extended Key Usage: \n    TLS Web Server Authentication, TLS Web Client Authentication\n"),
      Inspected("X509v3 Key Usage: \n    Digital Signature, Key Encipherment\n"),
      Inspected(""),
      InspectionRaises }

\* What detect_cert_type gives back, and whether it ran openssl.
Detected(type, inspected) == [type |-> type, inspected |-> inspected]

\* The try block, once subprocess.run has returned or raised.
FromExtensions(outcome, output) ==
    IF outcome.kind = "raises" THEN CLIENT
    ELSE IF contains(output, "tls web server") THEN SERVER
    ELSE IF contains(output, "tls web client") THEN CLIENT
    ELSE IF contains(output, "certificate sign") THEN CA
    ELSE CLIENT

\* The heuristic on the lower-case text, then the try block.
DetectFrom(filename, outcome) ==
    IF contains(filename, "ca") THEN Detected(CA, FALSE)
    ELSE IF contains(filename, "server") THEN Detected(SERVER, FALSE)
    ELSE IF contains(filename, "client") THEN Detected(CLIENT, FALSE)
    ELSE Detected(FromExtensions(outcome, lower(outcome.stdout)), TRUE)

\* detect_cert_type(cert_path), given what openssl makes of the file.
detect_cert_type(cert_path, outcome) == DetectFrom(lower(cert_path), outcome)

\* The directories certificates are looked at in: the issued directory of
\* the default PKI, and the issued directories of two PKIs kept elsewhere.
CertDirs == { "/home/pi/easy-rsa-pki/issued/", "/srv/vpn/pki/issued/", "/var/local/pki/issued/" }

\* The names of certificate files.
CertFileNames ==
    { "ca.crt", "server1.crt", "client1.crt", "Server-CA.crt", "CLIENT7.crt",
      "vpn-gw.crt", "laptop.crt", "oscar.crt" }

CertPaths == { dir \o name : dir \in CertDirs, name \in CertFileNames }

DetectedOf == [p \in CertPaths, o \in Inspections |-> detect_cert_type(p, o)]

DetectCertType ==
    \E cert_path \in CertPaths : Answers("detect_cert_type", cert_path, DetectedOf[cert_path, fs])

\* The file is given; what openssl makes of it does not change.
InitType ==
    /\ fs \in Inspections
    /\ held = None
    /\ query = NoQuery
    /\ ret = None
    /\ RunnerIdle
    /\ CertIdle
    /\ UiIdle

NextType ==
    \/ DetectCertType
    \/ Forget

SpecType == InitType /\ [][NextType]_vars

\* The part of a path after its last "/".
RECURSIVE basename(_)
basename(path) == IF contains(path, "/") THEN basename(From(path, find(path, "/", 1) + 1)) ELSE path

\* The type the file name gives: ca before server before client, in any
\* case; "" when it holds none of the three.
ByFileName(name) ==
    IF contains(lower(name), "ca") THEN CA
    ELSE IF contains(lower(name), "server") THEN SERVER
    ELSE IF contains(lower(name), "client") THEN CLIENT
    ELSE ""

\* C24: detect_cert_type classifies by the file name of the certificate (ca
\* before server before client, in any case) and runs openssl exactly when
\* the file name holds none of the three; then "tls web server" gives
\* Server, else "tls web client" Client, else "certificate sign" CA, else
\* Client, and a failure of openssl gives Client as well.
C24_FileNameThenTool ==
    query.op = "detect_cert_type" =>
        /\ ret.inspected <=> ByFileName(basename(query.arg)) = ""
        /\ ~ret.inspected => ret.type = ByFileName(basename(query.arg))
        /\ ret.inspected =>
               ret.type = IF fs.kind = "raises" THEN CLIENT
                          ELSE IF contains(lower(fs.stdout), "tls web server") THEN SERVER
                          ELSE IF contains(lower(fs.stdout), "tls web client") THEN CLIENT
                          ELSE IF contains(lower(fs.stdout), "certificate sign") THEN CA
                          ELSE CLIENT

\* ---------------------------------------------------------------------------
\* JogDialNavigator (ui/jogdial.py).
\* ---------------------------------------------------------------------------

\* JogDialNavigator.__init__: the new navigator.
JogDialNavigator_init == [items |-> << >>, current_index |-> 0, screen_stack |-> << >>]

\* set_items(items)
set_items(self, items) ==
    [self EXCEPT !.items = items, !.current_index = IF items # << >> THEN 0 ELSE 0 - 1]

\* move_up()
move_up(self) ==
    IF self.items = << >> THEN self
    ELSE [self EXCEPT !.current_index = (self.current_index - 1) % Len(self.items)]

\* move_down()
move_down(self) ==
    IF self.items = << >> THEN self
    ELSE [self EXCEPT !.current_index = (self.current_index + 1) % Len(self.items)]

\* confirm(): the (index, item) handed to on_confirm, << >> when confirm
\* returns without calling it.
confirm(self) ==
    IF self.items = << >> \/ self.current_index < 0 THEN << >>
    ELSE <<self.current_index, self.items[self.current_index + 1]>>

get_current_index(self) == self.current_index

\* push_screen(screen)
push_screen(self, screen) == [self EXCEPT !.screen_stack = Append(@, screen)]

\* pop_screen(): the popped screen (<< >> for None) and the navigator after.
pop_screen(self) ==
    IF self.screen_stack # << >>
    THEN [popped |-> <<self.screen_stack[Len(self.screen_stack)]>>,
          self |-> [self EXCEPT !.screen_stack = SubSeq(@, 1, Len(@) - 1)]]
    ELSE [popped |-> << >>, self |-> self]

\* The items a caller hands to set_items.
ItemLabels == {"Yes", "No", "Back"}
ItemLists == UNION {[1..n -> ItemLabels] : n \in 0..MaxItems}

\* A call of the navigator: the operation in query; in ret what
\* get_current_index() gave before and gives after it, and what on_confirm
\* received.
Navigated(op, self, received) ==
    /\ navigator' = self
    /\ query' = [op |-> op, arg |-> None]
    /\ ret' = [before |-> get_current_index(navigator), after |-> get_current_index(self),
               received |-> received]
    /\ UNCHANGED <<fs, held, current_screen>>
    /\ UNCHANGED <<runnerVars, certVars>>

SetItems == \E items \in ItemLists : Navigated("set_items", set_items(navigator, items), << >>)

MoveUp == Navigated("move_up", move_up(navigator), << >>)

MoveDown == Navigated("move_down", move_down(navigator), << >>)

Confirm == Navigated("confirm", navigator, confirm(navigator))

InitJog ==
    /\ navigator = JogDialNavigator_init
    /\ current_screen = None
    /\ fs = None
    /\ held = None
    /\ query = NoQuery
    /\ ret = None
    /\ RunnerIdle
    /\ CertIdle

NextJog ==
    \/ SetItems
    \/ MoveUp
    \/ MoveDown
    \/ Confirm

SpecJog == InitJog /\ [][NextJog]_vars

\* get_current_index() is -1 for an empty item list and a position of the
\* list otherwise.
IndexInRange ==
    IF navigator.items = << >> THEN get_current_index(navigator) = 0 - 1
    ELSE get_current_index(navigator) \in 0..(Len(navigator.items) - 1)

\* move_down from the last item selects the first, move_up from the first
\* selects the last.
WrapsAround ==
    /\ (query.op = "move_down" /\ navigator.items # << >>
            /\ ret.before = Len(navigator.items) - 1) => ret.after = 0
    /\ (query.op = "move_up" /\ navigator.items # << >> /\ ret.before = 0) =>
            ret.after = Len(navigator.items) - 1

\* C30: from construction on, after any set_items, move_up, move_down and
\* confirm, get_current_index() is -1 when the item list is empty and
\* otherwise a position of the list; move_down from the last item selects
\* the first and move_up from the first selects the last.
C30_IndexOfItems == IndexInRange /\ WrapsAround

\* ---------------------------------------------------------------------------
\* The screens (ui/screens) and the application (ui/app.py).
\* ---------------------------------------------------------------------------

NoScreen == << >>

\* A screen object: its class and the attributes the flows read.  owner is
\* the screen whose bound method a dialog or an input screen calls back.
Screen(cls, title, name, certificate, cert_type, template, on_yes, owner) ==
    [cls |-> cls, title |-> title, name |-> name, certificate |-> certificate,
     cert_type |-> cert_type, template |-> template, on_yes |-> on_yes, owner |-> owner]

MenuOnly(cls) == Screen(cls, "", "", NoCert, "", "", None, NoScreen)

MainMenuScreen == MenuOnly("MainMenuScreen")
CertificatesMenuScreen == MenuOnly("CertificatesMenuScreen")
CertListScreen == MenuOnly("CertListScreen")
CertCreateScreen == MenuOnly("CertCreateScreen")
CertExportScreen == MenuOnly("CertExportScreen")

USBImportExportScreen == MenuOnly("USBImportExportScreen")
USBDriveMenuScreen == MenuOnly("USBDriveMenuScreen")

\* Screens of which only the entry that goes back is followed here.
SettingsMenuScreen == MenuOnly("SettingsMenuScreen")
CertSignScreen == MenuOnly("CertSignScreen")

CertDetailScreen(certificate) ==
    Screen("CertDetailScreen", "", certificate.common_name, <<certificate>>, "", "", None, NoScreen)

CertNameInputScreen(cert_type, owner) ==
    Screen("CertNameInputScreen", "", "", NoCert, cert_type, "", None, <<owner>>)

InfoScreen(title) == Screen("InfoScreen", title, "", NoCert, "", "", None, NoScreen)

ConfirmScreen(title, name, on_yes, owner) ==
    Screen("ConfirmScreen", title, name, NoCert, "", "", on_yes, <<owner>>)

\* A menu item: the method its action calls, and the certificate the lambda
\* has bound.
Item(action, certificate) == [action |-> action, certificate |-> certificate]

Back == Item("go_back", NoCert)

ItemsFor(action, certificates) ==
    [i \in 1..Len(certificates) |-> Item(action, <<certificates[i]>>)]

\* CertNameInputScreen.charset
Charset ==
    [i \in 1..39 |-> At("abcdefghijklmnopqrstuvwxyz0123456789-_.", i)]
        \o <<"[SPACE]", "[DONE]", "[DELETE]", "[CANCEL]">>

\* _build_menu_items of each menu screen.  One USB drive is plugged in; of
\* the drive menu the entries that go back and that export certificates
\* are followed.
menu_items(screen, pki) ==
    CASE screen.cls = "MainMenuScreen" ->
            <<Item("_goto_settings", NoCert), Item("_goto_certificates", NoCert),
              Item("_goto_usb", NoCert), Item("_show_system_info", NoCert),
              Item("_show_about", NoCert)>>
      [] screen.cls = "CertificatesMenuScreen" ->
            IF pki.has_ca
            THEN <<Back, Item("_create_cert", NoCert), Item("_list_certs", NoCert),
                   Item("_sign_cert", NoCert)>>
            ELSE <<Back, Item("no_ca_message", NoCert)>>
      [] screen.cls = "CertListScreen" ->
            IF pki.certificates = << >>
            THEN <<Back, Item("nothing", NoCert)>>
            ELSE <<Back>> \o ItemsFor("_show_cert_details", pki.certificates)
      [] screen.cls = "CertDetailScreen" ->
            IF screen.certificate[1].status = VALID
            THEN <<Back, Item("_view_details", NoCert), Item("_export_cert", NoCert),
                   Item("_revoke_cert", NoCert)>>
            ELSE <<Back, Item("_view_details", NoCert)>>
      [] screen.cls = "CertCreateScreen" ->
            <<Back, Item("_create_server_cert", NoCert), Item("_create_client_cert", NoCert),
              Item("_create_vpn_server_cert", NoCert), Item("_create_vpn_client_cert", NoCert)>>
      [] screen.cls = "CertExportScreen" ->
            IF pki.valid = << >>
            THEN <<Back, Item("nothing", NoCert)>>
            ELSE <<Back, Item("_export_ca", NoCert)>>
                     \o ItemsFor("_export_certificate", pki.valid)
      [] screen.cls = "ConfirmScreen" -> <<Item("_on_yes", NoCert), Item("_on_no", NoCert)>>
      [] screen.cls = "USBImportExportScreen" ->
            <<Back, Item("_show_drive_menu", NoCert), Item("_refresh", NoCert)>>
      [] screen.cls = "USBDriveMenuScreen" -> <<Back, Item("_export_certs", NoCert)>>
      [] OTHER -> <<Back>>

\* The user interface as the handlers pass it on: the navigator, the
\* screen shown, the subprocess.run calls made so far by the handler, and
\* what the PKIManager of the screens reads from the disk.
Ui(nav, screen, spawns, pki) ==
    [navigator |-> nav, current_screen |-> screen, spawns |-> spawns, pki |-> pki]

\* What build() of the screen does to the navigator: menu screens and the
\* name input call set_items, InfoScreen does not.
Built(nav, screen, pki) ==
    IF screen.cls = "InfoScreen" THEN nav
    ELSE IF screen.cls = "CertNameInputScreen" THEN set_items(nav, Charset)
    ELSE set_items(nav, menu_items(screen, pki))

\* EasyRSAApp.show_screen(screen)
show_screen(u, screen) == Ui(Built(u.navigator, screen, u.pki), screen, u.spawns, u.pki)

\* A show_message that forgets to push the screen it is called on.
show_message_NoPush(u, self, title) == show_screen(u, InfoScreen(title))

\* BaseScreen.show_message(title, message)
show_message(u, self, title) ==
    show_screen([u EXCEPT !.navigator = push_screen(@, self)], InfoScreen(title))

\* BaseScreen.show_confirm(title, message, on_yes): it returns None.
show_confirm(u, self, title, name, on_yes) ==
    show_screen([u EXCEPT !.navigator = push_screen(@, self)],
                ConfirmScreen(title, name, on_yes, self))

\* The truth value of what show_confirm returns.
show_confirm_returned == FALSE

ShowPopped(u, popped) ==
    IF popped = << >> THEN u
    ELSE show_screen([u EXCEPT !.navigator = pop_screen(@).self], popped[1])

\* BaseScreen.go_back()
go_back(u) == ShowPopped(u, pop_screen(u.navigator).popped)

\* Navigation to another screen: push_screen(self), show_screen(target).
goto(u, self, target) == show_screen([u EXCEPT !.navigator = push_screen(@, self)], target)

Ran(u, done) == [u EXCEPT !.spawns = @ \o done.spawns]

\* _do_revoke_cert that updates the CRL whatever revoke returned.
RevokeThenCrl_Always(u, self, revoked, crl) ==
    IF crl.ret.success
    THEN show_message(Ran(Ran(u, revoked), crl), self, "Success")
    ELSE show_message(Ran(Ran(u, revoked), crl), self, "Partial Success")

\* CertDetailScreen._do_revoke_cert, given what revoke() and gen_crl() do.
RevokeThenCrl(u, self, revoked, crl) ==
    IF revoked.ret.success
    THEN IF crl.ret.success
         THEN show_message(Ran(Ran(u, revoked), crl), self, "Success")
         ELSE show_message(Ran(Ran(u, revoked), crl), self, "Partial Success")
    ELSE show_message(Ran(u, revoked), self, "Error")

_do_revoke_cert(u, self, env) ==
    RevokeThenCrl(u, self, revoke(env.easyrsa, self.name, "unspecified", env.first),
                  gen_crl(env.easyrsa, env.second))

Built1(u, self, done) ==
    IF done.ret.success THEN show_message(Ran(u, done), self, "Success")
    ELSE show_message(Ran(u, done), self, "Error")

\* CertCreateScreen._build_certificate(cert_type, cert_name, template_name)
_build_certificate(u, self, cert_type, cert_name, env) ==
    IF cert_type = "server"
    THEN Built1(u, self, build_server_full(env.easyrsa, cert_name, TRUE, env.first))
    ELSE Built1(u, self, build_client_full(env.easyrsa, cert_name, TRUE, env.first))

\* The statement `if self.show_confirm(...): self._build_certificate(...)`.
IfConfirmedBuild(asked, self, cert_name, env) ==
    IF show_confirm_returned
    THEN _build_certificate(asked, self, self.cert_type, cert_name, env)
    ELSE asked

\* CertCreateScreen._on_cert_name_entered(cert_name)
_on_cert_name_entered(u, self, cert_name, env) ==
    IF cert_name = "" THEN show_message(u, self, "Error")
    ELSE IF FirstNamed(u.pki.certificates, cert_name) # NoCert
    THEN show_message(u, self, "Error")
    ELSE IfConfirmedBuild(show_confirm(u, self, "Create Certificate", cert_name, None),
                          self, cert_name, env)

\* CertCreateScreen._create_certificate_wizard(cert_type, template_name)
WizardOf(u, me) == goto(u, me, CertNameInputScreen(me.cert_type, me))

_create_certificate_wizard(u, self, cert_type, template_name) ==
    WizardOf(u, [self EXCEPT !.cert_type = cert_type, !.template = template_name])

\* CertNameInputScreen._submit_name(), given the characters entered.
_submit_name(u, self, current_name, env) ==
    IF strip(current_name) = "" THEN u
    ELSE _on_cert_name_entered(go_back(u), self.owner[1], strip(current_name), env)

\* CertNameInputScreen.on_confirm(index, item); the characters entered so
\* far are not kept, [DONE] submits whatever the user has entered.
NameInputConfirm(u, self, char, env) ==
    IF char = "[DONE]" THEN _submit_name(u, self, env.typed, env)
    ELSE IF char = "[CANCEL]" THEN go_back(u)
    ELSE u

\* CertExportScreen._export_ca()
_export_ca(u, self, env) ==
    IF u.pki.ca_cert_path = NoPath THEN show_message(u, self, "Error")
    ELSE IF env.exported THEN show_message(u, self, "Success")
    ELSE show_message(u, self, "Error")

\* The statement `if self.show_confirm(...): ... else: ...` of
\* _export_certificate: either branch exports and shows a message.
IfConfirmedExport(asked, self, env) ==
    IF env.exported THEN show_message(asked, self, "Success")
    ELSE show_message(asked, self, "Error")

\* CertExportScreen._export_certificate(cert)
_export_certificate(u, self, certificate, env) ==
    IF ~u.pki.has_path[certificate.common_name]
    THEN show_message(u, self, "Error")
    ELSE IfConfirmedExport(show_confirm(u, self, "Export Options", certificate.common_name, None),
                           self, env)

\* USBDriveMenuScreen._export_certs()
_export_certs(u, self) ==
    IF u.pki.certificates = << >> THEN show_message(u, self, "No Certificates")
    ELSE goto(u, self, CertExportScreen)

\* The callback a ConfirmScreen was given, called on its owner.
Callback(u, owner, on_yes, env) ==
    IF on_yes = "_do_revoke_cert" THEN _do_revoke_cert(u, owner, env) ELSE u

\* ConfirmScreen._on_yes()
_on_yes(u, self, env) == Callback(go_back(u), self.owner[1], self.on_yes, env)

\* ConfirmScreen._on_no(): no screen passes an on_no callback.
_on_no(u, self) == go_back(u)

\* MenuScreen.on_confirm(index, item): item['action']().
MenuConfirm(u, self, item, env) ==
    CASE item.action = "go_back" -> go_back(u)
      [] item.action = "_goto_settings" -> goto(u, self, SettingsMenuScreen)
      [] item.action = "_goto_certificates" -> goto(u, self, CertificatesMenuScreen)
      [] item.action = "_goto_usb" -> goto(u, self, USBImportExportScreen)
      [] item.action = "_show_system_info" -> show_message(u, self, "System Info")
      [] item.action = "_show_about" -> show_message(u, self, "About")
      [] item.action = "no_ca_message" -> show_message(u, self, "No CA")
      [] item.action = "_create_cert" -> goto(u, self, CertCreateScreen)
      [] item.action = "_list_certs" -> goto(u, self, CertListScreen)
      [] item.action = "_sign_cert" -> goto(u, self, CertSignScreen)
      [] item.action = "_show_cert_details" -> goto(u, self, CertDetailScreen(item.certificate[1]))
      [] item.action = "_view_details" -> show_message(u, self, "Certificate Details")
      [] item.action = "_export_cert" -> show_message(u, self, "Export Certificate")
      [] item.action = "_revoke_cert" ->
            show_confirm(u, self, "Revoke Certificate", self.name, "_do_revoke_cert")
      [] item.action = "_create_server_cert" -> _create_certificate_wizard(u, self, "server", "server")
      [] item.action = "_create_client_cert" -> _create_certificate_wizard(u, self, "client", "client")
      [] item.action = "_create_vpn_server_cert" -> _create_certificate_wizard(u, self, "server", "vpn-server")
      [] item.action = "_create_vpn_client_cert" -> _create_certificate_wizard(u, self, "client", "vpn-client")
      [] item.action = "_export_ca" -> _export_ca(u, self, env)
      [] item.action = "_export_certificate" -> _export_certificate(u, self, item.certificate[1], env)
      [] item.action = "_show_drive_menu" -> goto(u, self, USBDriveMenuScreen)
      [] item.action = "_refresh" -> show_screen(u, self)
      [] item.action = "_export_certs" -> _export_certs(u, self)
      [] item.action = "_on_yes" -> _on_yes(u, self, env)
      [] item.action = "_on_no" -> _on_no(u, self)
      [] OTHER -> u

\* navigator.confirm() with the callbacks of the screen shown.
Confirmed(u, self, received, env) ==
    IF received = << >> THEN u
    ELSE IF self.cls = "CertNameInputScreen" THEN NameInputConfirm(u, self, received[2], env)
    ELSE MenuConfirm(u, self, received[2], env)

\* EasyRSAApp._on_confirm(): current_screen.on_confirm_button().
on_confirm_button(u, env) ==
    IF u.current_screen.cls = "InfoScreen" THEN go_back(u)
    ELSE Confirmed(u, u.current_screen, confirm(u.navigator), env)

\* EasyRSAApp._on_up() / _on_down(): InfoScreen scrolls its text instead.
on_up(u) ==
    IF u.current_screen.cls = "InfoScreen" THEN u
    ELSE [u EXCEPT !.navigator = move_up(@)]

on_down(u) ==
    IF u.current_screen.cls = "InfoScreen" THEN u
    ELSE [u EXCEPT !.navigator = move_down(@)]

\* What the name of the handler that a press of OK runs is.
Handler(u) ==
    IF u.current_screen.cls = "InfoScreen" THEN "go_back"
    ELSE IF confirm(u.navigator) = << >> THEN "nothing"
    ELSE IF u.current_screen.cls = "CertNameInputScreen" THEN confirm(u.navigator)[2]
    ELSE confirm(u.navigator)[2].action

\* The screens whose constructor makes an EasyRSAWrapper, which sets
\* os.environ.
MakesWrapper(screen) == screen.cls \in {"CertListScreen", "CertDetailScreen", "CertCreateScreen"}

\* What the tool does on the runs of one handler, what the user has
\* entered, and whether a copy to the USB drive works.
UiBehaviours ==
    { Behaviour("exit", 0, Empty, Empty, 1),
      Behaviour("exit", 1, Empty, Str("Easy-RSA error: failed"), 1),
      Behaviour("hang", 0, Empty, Empty, 0) }

TypedNames == {"server1", "vpn2", " "}

Envs ==
    [easyrsa : {wrappers[1]}, first : UiBehaviours, second : UiBehaviours,
     typed : TypedNames, exported : BOOLEAN]

\* What the PKIManager methods the screens call return on the disk as it is.
CommonNamesOf(certificates) == {certificates[i].common_name : i \in 1..Len(certificates)}

PkiRead(certificates) ==
    [has_ca |-> PKIInfo_has_ca(get_pki_info(TheManager)),
     certificates |-> certificates,
     valid |-> FilterStatus(certificates, VALID),
     ca_cert_path |-> get_ca_cert_path(TheManager),
     has_path |-> [n \in CommonNamesOf(certificates) |->
                      get_certificate_path(TheManager, n) # NoPath]]

ThePki == PkiRead(list_certificates(TheManager, None))

TheUi == Ui(navigator, current_screen, << >>, ThePki)

\* A press of a button, handled: op names the handler that ran, screen the
\* screen it ran on, stack the navigation stack it found.
Pressed(op, u) ==
    /\ navigator' = u.navigator
    /\ current_screen' = u.current_screen
    /\ spawned' = u.spawns
    /\ lastCall' = [op |-> op, w |-> 1, common_name |-> current_screen.name,
                    screen |-> current_screen, stack |-> navigator.screen_stack]
    /\ environ' = IF MakesWrapper(u.current_screen)
                  THEN EasyRSAWrapper_init(wrappers[1].easyrsa_bin, None).environ
                  ELSE environ
    /\ UNCHANGED <<wrappers, result>>
    /\ UNCHANGED <<certVars, storeVars>>

PressUp == Pressed("on_up", on_up(TheUi))

PressDown == Pressed("on_down", on_down(TheUi))

PressConfirm ==
    /\ Len(navigator.screen_stack) < MaxStack
    /\ \E env \in Envs : Pressed(Handler(TheUi), on_confirm_button(TheUi, env))

PressBackSpace == Pressed("_go_back", go_back(TheUi))

\* The PKI directories the application is run on: without a CA, with a CA
\* and no certificate, with a CA, a valid and a revoked certificate (the
\* file of the revoked one is gone), and the same without the file of the
\* valid one.
UiIndex ==
    << "V\t300101000000Z\t\t01\tunknown\t/CN=server1\n",
       "R\t300101000000Z\t250601120000Z\t02\tunknown\t/CN=client1\n" >>

WithCa == [EmptyFs EXCEPT !.pki_dir = TRUE, !.ca_crt = TRUE, !.private = {"ca"}, !.index_exists = TRUE]

UiDisks ==
    { [EmptyFs EXCEPT !.pki_dir = TRUE],
      WithCa,
      [WithCa EXCEPT !.index = UiIndex, !.issued = {"server1"}, !.private = {"ca", "server1"}],
      [WithCa EXCEPT !.index = UiIndex] }

\* EasyRSAApp.run(): the main menu is shown, the stack is empty; the
\* configured easyrsa_bin is what the wrappers of the screens will use.
InitUi ==
    /\ navigator = set_items(JogDialNavigator_init, menu_items(MainMenuScreen, None))
    /\ current_screen = MainMenuScreen
    /\ fs \in UiDisks
    /\ held = None
    /\ query = NoQuery
    /\ ret = None
    /\ environ = [n \in EnvNames |-> IF n = "PATH" THEN "/usr/bin" ELSE None]
    /\ wrappers \in {<<[easyrsa_bin |-> bin, pki_dir |-> settings_pki_dir]>> : bin \in Bins}
    /\ lastCall = NoCall
    /\ spawned = << >>
    /\ result = None
    /\ CertIdle

NextUi ==
    \/ PressUp
    \/ PressDown
    \/ PressConfirm
    \/ PressBackSpace

SpecUi == InitUi /\ [][NextUi]_vars

\* Whether the run of the tool that a subprocess.run call made returned
\* success to the wrapper.
Succeeded(spawn) ==
    Outcome(wrappers[1], subprocess_run(spawn.cmd, spawn.env, TIMEOUT, spawn.beh)).success

\* The positions of the invocations of a subcommand among those of the
\* last handler.
InvocationsOf(subcommand) == {i \in 1..Len(spawned) : spawned[i].cmd[2] = subcommand}

\* Yes was answered on the confirmation with this title.
AnsweredYes(title) == lastCall.op = "_on_yes" /\ lastCall.screen.title = title

AnsweredNo(title) == lastCall.op = "_on_no" /\ lastCall.screen.title = title

\* C27: in the certificate detail flow gen-crl is invoked only after a revoke
\* of the same flow returned success.  No handler invokes gen-crl except as
\* the second invocation after a successful revoke; Yes on the revoke
\* confirmation invokes revoke once with the name of the certificate, then
\* gen-crl once if revoke succeeded and nothing if it failed; a gen-crl
\* that fails after a successful revoke shows 'Partial Success' with revoke
\* invoked once.
C27_CrlAfterRevoke ==
    /\ \A i \in InvocationsOf("gen-crl") :
          /\ i = 2
          /\ spawned[1].cmd[2] = "revoke"
          /\ Succeeded(spawned[1])
    /\ AnsweredYes("Revoke Certificate") =>
          /\ InvocationsOf("revoke") = {1}
          /\ spawned[1].cmd = <<wrappers[1].easyrsa_bin, "revoke", lastCall.screen.name>>
          /\ IF Succeeded(spawned[1])
             THEN /\ Len(spawned) = 2
                  /\ InvocationsOf("gen-crl") = {2}
                  /\ current_screen.title =
                        IF Succeeded(spawned[2]) THEN "Success" ELSE "Partial Success"
             ELSE /\ Len(spawned) = 1
                  /\ current_screen.title = "Error"

\* A revoke succeeded and the gen-crl after it failed.
C27_Witness ==
    /\ AnsweredYes("Revoke Certificate")
    /\ Len(spawned) = 2
    /\ Succeeded(spawned[1])
    /\ ~Succeeded(spawned[2])
    /\ current_screen.title = "Partial Success"

\* A revoke failed on a missing binary.
C27_WitnessMissing ==
    /\ AnsweredYes("Revoke Certificate")
    /\ BinKind(wrappers[1].easyrsa_bin) = "absent"
    /\ Len(spawned) = 1

\* C28: in the create-certificate wizard, Yes on the 'Create Certificate'
\* confirmation makes exactly one build-server-full (server types) or
\* build-client-full (client types) invocation with the entered name, and
\* No makes no invocation.
C28_YesBuildsOnce ==
    /\ AnsweredYes("Create Certificate") =>
          /\ Len(spawned) = 1
          /\ spawned[1].cmd[2] =
                IF lastCall.screen.owner[1].cert_type = "server"
                THEN "build-server-full" ELSE "build-client-full"
          /\ spawned[1].cmd[3] = lastCall.screen.name
    /\ AnsweredNo("Create Certificate") => spawned = << >>

Dialogs == {"InfoScreen", "ConfirmScreen"}

BackOps == {"go_back", "_go_back", "_on_yes", "_on_no"}

\* The last handler ran on a screen that is no dialog and left a dialog
\* on display.
OpenedDialog ==
    /\ lastCall.op \notin BackOps \cup {None}
    /\ lastCall.screen.cls \notin Dialogs
    /\ current_screen.cls \in Dialogs

\* The last handler dismissed a dialog.
DismissedDialog ==
    /\ lastCall.op \in BackOps
    /\ lastCall.screen.cls \in Dialogs
    /\ lastCall.stack # << >>

Top(stack) == stack[Len(stack)]

Below(stack) == SubSeq(stack, 1, Len(stack) - 1)

\* C29: navigation pushes and pops are balanced.  A screen S that opens a
\* message or a confirmation is pushed once, on the stack as it was; the
\* dismissal of the dialog shows S again on the stack as it was before S
\* opened the dialog, or, when the Yes callback has opened a message from
\* S, with S pushed once on that stack; go_back on an empty stack leaves
\* the screen and the stack as they are.
C29_Balanced ==
    /\ OpenedDialog =>
          navigator.screen_stack = Append(lastCall.stack, lastCall.screen)
    /\ DismissedDialog =>
          IF current_screen.cls \in Dialogs
          THEN navigator.screen_stack = lastCall.stack
          ELSE /\ current_screen = Top(lastCall.stack)
               /\ navigator.screen_stack = Below(lastCall.stack)
    /\ (lastCall.op \in BackOps /\ lastCall.stack = << >>) =>
          /\ current_screen = lastCall.screen
          /\ navigator.screen_stack = << >>

====
